---- MODULE Spec2Model ----
(***************************************************************************)
(* Service container lifecycle of go-web-skeleton:                         *)
(*   infrastructure/registry  NewContainer, Container.Close, the logger    *)
(*                            and database services, log writer selection  *)
(*   config                   validation of the log path                   *)
(* A path string is a sequence of tokens: the separator "/" and names.     *)
(* An error is the sequence of its messages, outermost wrap first; the nil *)
(* error is the empty sequence.                                            *)
(***************************************************************************)
EXTENDS Integers, Sequences, FiniteSets, TLC

VARIABLES
  world,      \* the file system, the open descriptors and pools, the calls made
  pc,         \* "start", then "returned" once a Container has been requested
  origin,     \* how the Container was made: "NewContainer" or "literal"
  ret,        \* what the construction returned: [container, err]
  closeRets,  \* the errors returned by the calls of Container.Close, in order
  writers,    \* the results of the direct calls of createLogWriter, in order,
              \* each with the records written before it and through it
  nwrites,    \* the number of records written so far
  pings,      \* the results of the calls of DbService.Ping on the Container
  got,        \* what the accessors Config, Logger and Db last returned
  srv,        \* the HTTP server process: where main and the signal goroutine
              \* are, and the messages logged, the i-th being record i
  dotenv,     \* a call of loadEnvVars: the environment name, the env files,
              \* the process environment, and the error returned
  cli,        \* the CLI process: where its main is and how it has exited
  resp,       \* an error response: the error handed to the error builder, and
              \* the status code sent
  mig,        \* a run of the migrations: its options, where it is, its pool
  boot        \* the global test bootstrap: the Once, the instance, the callers

\* the variables the container lifecycle and the log writer leave alone
\* the variables of the other programs of the repository
apart == <<cli, resp, mig, boot>>
notCli == <<resp, mig, boot>>
notResp == <<cli, mig, boot>>
notMig == <<cli, resp, boot>>
notBoot == <<cli, resp, mig>>

aside == <<pings, got, srv, dotenv, apart>>

vars ==
  <<world, pc, origin, ret, closeRets, writers, nwrites, pings, got, srv,
    dotenv, cli, resp, mig, boot>>

\* ------------------------------------------------------------------ bounds
MaxPathLen == 3
MaxWrites == 2
MaxOps == 4
MaxCloses == 2
MaxPings == 2
MaxRequests == 1

\* ------------------------------------------------------------- path strings
Sep == "/"
Names == {".", "..", "a", "stdout", "stderr"}
Alphabet == {Sep} \cup Names

\* two names are always separated by at least one separator
WellFormed(s) == \A i \in 1..(Len(s) - 1) : s[i] = Sep \/ s[i + 1] = Sep

PathStrings ==
  {s \in UNION {[1..n -> Alphabet] : n \in 0..MaxPathLen} : WellFormed(s)}

EmptyPath == << >>
StdoutPath == <<"stdout">>
StderrPath == <<"stderr">>

NoErr == << >>

Wrap(msg, err) == <<msg>> \o err

\* filepath.IsAbs on Unix: the path begins with the separator
IsAbs(path) == Len(path) > 0 /\ path[1] = Sep

\* the elements of a path with the separators and "." elements dropped
IsElem(t) == t # Sep /\ t # "."
Elems(path) == SelectSeq(path, IsElem)

\* filepath.Clean, the ".." rule: an inner ".." removes the element before
\* it, a ".." at the root is dropped, a leading ".." of a relative path stays
RECURSIVE Resolve(_, _, _)
Resolve(elems, stack, rooted) ==
  IF elems = << >> THEN stack
  ELSE LET e == Head(elems) IN
       IF e = ".."
       THEN IF Len(stack) > 0 /\ stack[Len(stack)] # ".."
            THEN Resolve(Tail(elems), SubSeq(stack, 1, Len(stack) - 1), rooted)
            ELSE IF rooted
                 THEN Resolve(Tail(elems), stack, rooted)
                 ELSE Resolve(Tail(elems), Append(stack, e), rooted)
       ELSE Resolve(Tail(elems), Append(stack, e), rooted)

RECURSIVE Join(_)
Join(stack) ==
  IF stack = << >> THEN << >>
  ELSE IF Len(stack) = 1 THEN stack
  ELSE <<Head(stack), Sep>> \o Join(Tail(stack))

\* filepath.Clean: the shortest equivalent path; "" and "a/.." give "."
Clean(path) ==
  LET stack == Resolve(Elems(path), << >>, IsAbs(path)) IN
  IF IsAbs(path) THEN <<Sep>> \o Join(stack)
  ELSE IF stack = << >> THEN <<".">>
  ELSE Join(stack)

\* index of the last separator of a path, 0 when it has none
LastSep(path) ==
  LET S == {i \in 1..Len(path) : path[i] = Sep} IN
  IF S = {} THEN 0 ELSE CHOOSE i \in S : \A j \in S : j <= i

\* filepath.Dir: all but the last element of the path, cleaned
Dir(path) == Clean(SubSeq(path, 1, LastSep(path)))

\* ------------------------------------------------------------ file system
\* A location is a cleaned path; relative and absolute locations are
\* distinct. kind: what exists there; data: the content of a file.
Locs == {Clean(p) : p \in PathStrings}
Kinds == {"none", "file", "dir", "rodir"}
IsDirKind(k) == k \in {"dir", "rodir"}

\* ".", "/", ".." and "../.." always exist as directories
IsDotsOnly(loc) == \A i \in 1..Len(loc) : loc[i] \in {Sep, ".", ".."}

InitKinds ==
  {[l \in Locs |->
      IF l = <<".">> THEN dot
      ELSE IF l = <<Sep>> THEN root
      ELSE IF IsDotsOnly(l) THEN "dir"
      ELSE IF l = <<"a">> THEN a
      ELSE IF l = <<Sep, "a">> THEN ra
      ELSE "none"] :
     dot \in {"dir", "rodir"}, root \in {"rodir"},
     a \in Kinds, ra \in {"none", "dir"}}

InitData(k) == [l \in Locs |-> IF k[l] = "file" THEN <<0>> ELSE << >>]

\* os.MkdirAll: nothing to do for an existing directory, an error for an
\* existing file, otherwise the parents first and then the directory itself
RECURSIVE MkdirAll(_, _)
MkdirAll(kind, dir) ==
  IF IsDirKind(kind[dir]) THEN [ok |-> TRUE, kind |-> kind]
  ELSE IF kind[dir] = "file" THEN [ok |-> FALSE, kind |-> kind]
  ELSE LET up == MkdirAll(kind, Dir(dir)) IN
       IF ~up.ok THEN up
       ELSE IF up.kind[Dir(dir)] = "rodir" THEN [ok |-> FALSE, kind |-> up.kind]
       ELSE [ok |-> TRUE, kind |-> [up.kind EXCEPT ![dir] = "dir"]]

\* a call made during the run: the operation, the descriptor or pool it was
\* made on (0 when there is none), and whether it returned without an error
Event(op, id) == [op |-> op, id |-> id, ok |-> TRUE]
Failed(op, id) == [op |-> op, id |-> id, ok |-> FALSE]
Log(w, op, id) == [w EXCEPT !.trace = Append(@, Event(op, id))]
LogFailed(w, op, id) == [w EXCEPT !.trace = Append(@, Failed(op, id))]

\* the value of body(r) with r bound to the value of e (a local variable)
Bind(e, body(_)) == CHOOSE y \in {body(r) : r \in {e}} : TRUE

\* os.OpenFile with O_TRUNC in the place of O_APPEND: an existing file is
\* emptied when it is opened
OpenFile_Truncate(w, path) ==
  IF IsDirKind(w.kind[path])
  THEN [w |-> LogFailed(w, "os.OpenFile", 0), fd |-> 0, err |-> <<"is a directory">>]
  ELSE IF w.kind[path] = "file" \/ w.kind[Dir(path)] = "dir"
  THEN [w |-> [w EXCEPT !.trace = Append(@, Event("os.OpenFile", Len(w.fds) + 1)),
                        !.fds = Append(@, [path |-> path, open |-> TRUE]),
                        !.kind[path] = "file", !.data[path] = << >>],
        fd |-> Len(w.fds) + 1, err |-> NoErr]
  ELSE [w |-> LogFailed(w, "os.OpenFile", 0), fd |-> 0,
        err |-> <<"permission denied">>]

\* os.OpenFile(path, O_APPEND|O_CREATE|O_WRONLY, 0644): a directory cannot be
\* opened for writing, an existing file is opened with its content kept, a
\* missing file is created empty when its directory allows it
OpenFile(w, path) ==
  LET fd == Len(w.fds) + 1
      opened == [w EXCEPT !.trace = Append(@, Event("os.OpenFile", fd)),
                          !.fds = Append(@, [path |-> path, open |-> TRUE])]
  IN
  IF IsDirKind(w.kind[path])
  THEN [w |-> LogFailed(w, "os.OpenFile", 0), fd |-> 0, err |-> <<"is a directory">>]
  ELSE IF w.kind[path] = "file"
  THEN [w |-> opened, fd |-> fd, err |-> NoErr]
  ELSE IF w.kind[Dir(path)] = "dir"
  THEN [w |-> [opened EXCEPT !.kind[path] = "file", !.data[path] = << >>],
        fd |-> fd, err |-> NoErr]
  ELSE [w |-> LogFailed(w, "os.OpenFile", 0), fd |-> 0,
        err |-> <<"permission denied">>]

\* os.File.Close: a second Close is an error; the first one releases the
\* descriptor whether or not the operating system reports an error
FileClose(w, fd, fails) ==
  IF ~w.fds[fd].open
  THEN [w |-> LogFailed(w, "file.Close", fd), err |-> <<"file already closed">>]
  ELSE IF fails
  THEN [w |-> [LogFailed(w, "file.Close", fd) EXCEPT !.fds[fd].open = FALSE],
        err |-> <<"close failed">>]
  ELSE [w |-> [Log(w, "file.Close", fd) EXCEPT !.fds[fd].open = FALSE],
        err |-> NoErr]

\* os.File.Write with O_APPEND: the bytes go to the end of the file
FileWrite(w, fd, b) ==
  IF ~w.fds[fd].open THEN [w |-> w, err |-> <<"file already closed">>]
  ELSE [w |-> [w EXCEPT !.data[w.fds[fd].path] = Append(@, b)], err |-> NoErr]

\* ------------------------------------------------------------- log writers
StdoutWriter == [variant |-> "stdout", fd |-> 0]
StderrWriter == [variant |-> "stderr", fd |-> 0]
FileLogWriter(fd) == [variant |-> "file", fd |-> fd]
\* the nil LogWriter interface value
NilWriter == [variant |-> "nil", fd |-> 0]

validateLogPath(path) ==
  IF IsAbs(path) /\ Clean(path) # path
  THEN <<"path contains suspicious elements">>
  ELSE NoErr

createFileLogWriter(w, logPath) ==
  IF logPath = EmptyPath
  THEN [w |-> w, writer |-> NilWriter, err |-> <<"log path cannot be empty">>]
  ELSE Bind(Clean(logPath), LAMBDA cleanPath :
    IF IsAbs(cleanPath) /\ validateLogPath(cleanPath) # NoErr
    THEN [w |-> w, writer |-> NilWriter,
          err |-> Wrap("invalid log path", validateLogPath(cleanPath))]
    ELSE Bind(MkdirAll(w.kind, Dir(cleanPath)), LAMBDA made :
      IF ~made.ok
      THEN [w |-> [w EXCEPT !.kind = made.kind,
                            !.trace = Append(@, Failed("os.MkdirAll", 0))],
            writer |-> NilWriter,
            err |-> Wrap("failed to create log directory", <<"mkdir failed">>)]
      ELSE Bind(OpenFile([w EXCEPT !.kind = made.kind,
                                   !.trace = Append(@, Event("os.MkdirAll", 0))],
                         cleanPath), LAMBDA file :
        IF file.err # NoErr
        THEN [w |-> file.w, writer |-> NilWriter,
              err |-> Wrap("failed to open log file", file.err)]
        ELSE [w |-> file.w, writer |-> FileLogWriter(file.fd), err |-> NoErr])))

\* createLogWriter with the stdout case copied into the stderr case
createLogWriter_StderrIsStdout(w, logPath) ==
  IF logPath = StdoutPath
  THEN [w |-> w, writer |-> StdoutWriter, err |-> NoErr]
  ELSE IF logPath = StderrPath
  THEN [w |-> w, writer |-> StdoutWriter, err |-> NoErr]
  ELSE createFileLogWriter(w, logPath)

createLogWriter(w, logPath) ==
  IF logPath = StdoutPath
  THEN [w |-> w, writer |-> StdoutWriter, err |-> NoErr]
  ELSE IF logPath = StderrPath
  THEN [w |-> w, writer |-> StderrWriter, err |-> NoErr]
  ELSE createFileLogWriter(w, logPath)

\* LogWriter.Close: a no-op for the process streams, os.File.Close for a file
\* LogWriter.Close closing os.Stdout or os.Stderr as it closes a file
WriterClose_ClosesStream(w, writer, fails) ==
  IF writer.variant = "file" THEN FileClose(w, writer.fd, fails)
  ELSE IF writer.variant \in w.closedStreams
  THEN [w |-> LogFailed(w, "stdoutWriter.Close", 0),
        err |-> <<"file already closed">>]
  ELSE [w |-> [Log(w, "stdoutWriter.Close", 0)
                 EXCEPT !.closedStreams = @ \cup {writer.variant}],
        err |-> NoErr]

WriterClose(w, writer, fails) ==
  IF writer.variant = "file" THEN FileClose(w, writer.fd, fails)
  ELSE IF writer.variant = "stdout"
  THEN [w |-> Log(w, "stdoutWriter.Close", 0), err |-> NoErr]
  ELSE [w |-> Log(w, "stderrWriter.Close", 0), err |-> NoErr]

\* LogWriter.Write: os.Stdout.Write or os.Stderr.Write, which fail on a
\* stream that has been closed, or the file's Write
WriterWrite(w, writer, b) ==
  IF writer.variant = "file" THEN FileWrite(w, writer.fd, b)
  ELSE IF writer.variant \in w.closedStreams
  THEN [w |-> w, err |-> <<"file already closed">>]
  ELSE [w |-> [w EXCEPT !.streams[writer.variant] = Append(@, b)],
        err |-> NoErr]

\* ------------------------------------------------------------ configuration
Dsns == {"", "dsn", "malformed"}
Faults == {"none", "load", "invalid"}

\* config.validateLogPath: stdout, stderr, or a path whose directory exists
configValidateLogPath(kind, path) ==
  IF path = StdoutPath \/ path = StderrPath THEN TRUE
  ELSE IF path # EmptyPath
  THEN IF Dir(path) # <<".">> THEN IsDirKind(kind[Dir(path)]) ELSE TRUE
  ELSE FALSE

ZeroConfig == [LogPath |-> EmptyPath, Db |-> [Dsn |-> ""]]

\* penv is the process environment: APP_LOG_PATH, DB_DSN, and whether the
\* environment files load and the remaining settings validate
BuildConfig(w, penv) ==
  IF penv.fault = "load"
  THEN [config |-> ZeroConfig,
        err |-> Wrap("failed to load environment variables", <<"load failed">>)]
  ELSE IF \/ penv.fault = "invalid"
          \/ penv.LogPath = EmptyPath
          \/ ~configValidateLogPath(w.kind, penv.LogPath)
          \/ penv.Dsn = ""
  THEN [config |-> ZeroConfig,
        err |-> Wrap("configuration validation failed", <<"validation failed">>)]
  ELSE [config |-> [LogPath |-> penv.LogPath, Db |-> [Dsn |-> penv.Dsn]],
        err |-> NoErr]

NilConfigService == [ptr |-> "nil", config |-> ZeroConfig]

NewConfigService(w, penv) ==
  Bind(BuildConfig(w, penv), LAMBDA built :
    IF built.err # NoErr
    THEN [w |-> Log(w, "NewConfigService", 0), svc |-> NilConfigService,
          err |-> Wrap("failed to build configuration", built.err)]
    ELSE [w |-> Log(w, "NewConfigService", 0),
          svc |-> [ptr |-> "ok", config |-> built.config], err |-> NoErr])

\* ------------------------------------------------------------------ logger
NilLoggerService == [ptr |-> "nil", logger |-> NilWriter, logWriter |-> NilWriter]

\* the slog.Logger is identified with the writer its handler writes to
NewLoggerService(w, configService) ==
  IF configService.ptr = "nil"
  THEN [w |-> Log(w, "NewLoggerService", 0), svc |-> NilLoggerService,
        err |-> <<"config service cannot be nil">>]
  ELSE Bind(createLogWriter(Log(w, "NewLoggerService", 0),
                            configService.config.LogPath), LAMBDA made :
    IF made.err # NoErr
    THEN [w |-> made.w, svc |-> NilLoggerService,
          err |-> Wrap("failed to create log writer", made.err)]
    ELSE [w |-> [made.w EXCEPT !.defaultLogger = made.writer],
          svc |-> [ptr |-> "ok", logger |-> made.writer, logWriter |-> made.writer],
          err |-> NoErr])

LoggerServiceClose(w, l, fails) ==
  IF l.logWriter # NilWriter
  THEN WriterClose(Log(w, "LoggerService.Close", 0), l.logWriter, fails)
  ELSE [w |-> Log(w, "LoggerService.Close", 0), err |-> NoErr]

\* ---------------------------------------------------------------- database
\* sql.Open("mysql", dsn): a malformed DSN is an error and no pool exists
sqlOpen(w, dsn) ==
  IF dsn # "dsn"
  THEN [w |-> LogFailed(w, "sql.Open", 0), db |-> 0, err |-> <<"invalid DSN">>]
  ELSE [w |-> [w EXCEPT !.trace = Append(@, Event("sql.Open", Len(w.pools) + 1)),
                        !.pools = Append(@, [closed |-> FALSE, configured |-> FALSE])],
        db |-> Len(w.pools) + 1, err |-> NoErr]

\* sql.DB.Close: idempotent; the pool is closed even when Close reports an error
DbClose(w, db, fails) ==
  IF w.pools[db].closed THEN [w |-> Log(w, "db.Close", db), err |-> NoErr]
  ELSE IF fails
  THEN [w |-> [LogFailed(w, "db.Close", db) EXCEPT !.pools[db].closed = TRUE],
        err |-> <<"db close failed">>]
  ELSE [w |-> [Log(w, "db.Close", db) EXCEPT !.pools[db].closed = TRUE],
        err |-> NoErr]

\* sql.DB.PingContext under the caller's deadline
PingContext(w, db, reachable) ==
  IF w.pools[db].closed
  THEN [w |-> LogFailed(w, "db.PingContext", db),
        err |-> <<"sql: database is closed">>]
  ELSE IF reachable THEN [w |-> Log(w, "db.PingContext", db), err |-> NoErr]
  ELSE [w |-> LogFailed(w, "db.PingContext", db),
        err |-> <<"context deadline exceeded">>]

createDatabaseConnection(w, dbConfig) ==
  Bind(sqlOpen(w, dbConfig.Dsn), LAMBDA opened :
    IF opened.err # NoErr
    THEN [w |-> opened.w, db |-> 0,
          err |-> Wrap("failed to open database connection", opened.err)]
    ELSE [w |-> [opened.w EXCEPT !.pools[opened.db].configured = TRUE],
          db |-> opened.db, err |-> NoErr])

NilDbService == [ptr |-> "nil", db |-> 0]
NewDbServiceFromDb(db) == [ptr |-> "ok", db |-> db]

DbServiceClose(w, d, fails) ==
  IF d.db # 0 THEN DbClose(Log(w, "DbService.Close", 0), d.db, fails)
  ELSE [w |-> Log(w, "DbService.Close", 0), err |-> NoErr]

\* DbService.Ping reporting success whatever the probe answered
DbServicePing_IgnoresProbe(w, d, reachable) ==
  IF d.db = 0
  THEN [w |-> LogFailed(w, "DbService.Ping", 0),
        err |-> <<"database connection is nil">>]
  ELSE [w |-> PingContext(Log(w, "DbService.Ping", 0), d.db, reachable).w,
        err |-> NoErr]

DbServicePing(w, d, reachable) ==
  IF d.db = 0
  THEN [w |-> LogFailed(w, "DbService.Ping", 0),
        err |-> <<"database connection is nil">>]
  ELSE PingContext(Log(w, "DbService.Ping", 0), d.db, reachable)

\* NewDbService without the clean-up of the pool whose ping failed
NewDbService_NoCloseOnPingFail(w, cfg, env) ==
  IF cfg.ptr = "nil"
  THEN [w |-> Log(w, "NewDbService", 0), svc |-> NilDbService,
        err |-> <<"config service cannot be nil">>]
  ELSE Bind(createDatabaseConnection(Log(w, "NewDbService", 0), cfg.config.Db),
            LAMBDA conn :
    IF conn.err # NoErr
    THEN [w |-> conn.w, svc |-> NilDbService,
          err |-> Wrap("failed to create database connection", conn.err)]
    ELSE Bind(DbServicePing(conn.w, NewDbServiceFromDb(conn.db), env.reachable),
              LAMBDA ping :
      IF ping.err # NoErr
      THEN [w |-> ping.w, svc |-> NilDbService,
            err |-> Wrap("failed to ping database", ping.err)]
      ELSE [w |-> ping.w, svc |-> NewDbServiceFromDb(conn.db), err |-> NoErr]))

\* NewDbService closing the pool in a deferred call as well as explicitly
NewDbService_CloseTwice(w, cfg, env) ==
  IF cfg.ptr = "nil"
  THEN [w |-> Log(w, "NewDbService", 0), svc |-> NilDbService,
        err |-> <<"config service cannot be nil">>]
  ELSE Bind(createDatabaseConnection(Log(w, "NewDbService", 0), cfg.config.Db),
            LAMBDA conn :
    IF conn.err # NoErr
    THEN [w |-> conn.w, svc |-> NilDbService,
          err |-> Wrap("failed to create database connection", conn.err)]
    ELSE Bind(DbServicePing(conn.w, NewDbServiceFromDb(conn.db), env.reachable),
              LAMBDA ping :
      IF ping.err # NoErr
      THEN [w |-> DbServiceClose(
                    DbServiceClose(ping.w, NewDbServiceFromDb(conn.db),
                                   env.dbCloseFails).w,
                    NewDbServiceFromDb(conn.db), env.dbCloseFails).w,
            svc |-> NilDbService,
            err |-> Wrap("failed to ping database", ping.err)]
      ELSE [w |-> ping.w, svc |-> NewDbServiceFromDb(conn.db), err |-> NoErr]))

\* NewDbService probing a second time when the first probe failed
NewDbService_RetryPing(w, cfg, env) ==
  IF cfg.ptr = "nil"
  THEN [w |-> Log(w, "NewDbService", 0), svc |-> NilDbService,
        err |-> <<"config service cannot be nil">>]
  ELSE Bind(createDatabaseConnection(Log(w, "NewDbService", 0), cfg.config.Db),
            LAMBDA conn :
    IF conn.err # NoErr
    THEN [w |-> conn.w, svc |-> NilDbService,
          err |-> Wrap("failed to create database connection", conn.err)]
    ELSE Bind(DbServicePing(conn.w, NewDbServiceFromDb(conn.db), env.reachable),
              LAMBDA first :
      Bind(IF first.err # NoErr
           THEN DbServicePing(first.w, NewDbServiceFromDb(conn.db), env.reachable)
           ELSE first, LAMBDA ping :
        IF ping.err # NoErr
        THEN [w |-> DbServiceClose(ping.w, NewDbServiceFromDb(conn.db),
                                   env.dbCloseFails).w,
              svc |-> NilDbService,
              err |-> Wrap("failed to ping database", ping.err)]
        ELSE [w |-> ping.w, svc |-> NewDbServiceFromDb(conn.db), err |-> NoErr])))

\* NewDbService reporting a failed probe in the words of a failed open
NewDbService_PingAsOpenError(w, cfg, env) ==
  IF cfg.ptr = "nil"
  THEN [w |-> Log(w, "NewDbService", 0), svc |-> NilDbService,
        err |-> <<"config service cannot be nil">>]
  ELSE Bind(createDatabaseConnection(Log(w, "NewDbService", 0), cfg.config.Db),
            LAMBDA conn :
    IF conn.err # NoErr
    THEN [w |-> conn.w, svc |-> NilDbService,
          err |-> Wrap("failed to create database connection", conn.err)]
    ELSE Bind(DbServicePing(conn.w, NewDbServiceFromDb(conn.db), env.reachable),
              LAMBDA ping :
      IF ping.err # NoErr
      THEN [w |-> DbServiceClose(ping.w, NewDbServiceFromDb(conn.db),
                                 env.dbCloseFails).w,
            svc |-> NilDbService,
            err |-> Wrap("failed to create database connection", ping.err)]
      ELSE [w |-> ping.w, svc |-> NewDbServiceFromDb(conn.db), err |-> NoErr]))

\* env: reachable (the probe answers within the 10 second deadline),
\* dbCloseFails and logCloseFails (a Close reports an error)
NewDbService(w, cfg, env) ==
  IF cfg.ptr = "nil"
  THEN [w |-> Log(w, "NewDbService", 0), svc |-> NilDbService,
        err |-> <<"config service cannot be nil">>]
  ELSE Bind(createDatabaseConnection(Log(w, "NewDbService", 0), cfg.config.Db),
            LAMBDA conn :
    IF conn.err # NoErr
    THEN [w |-> conn.w, svc |-> NilDbService,
          err |-> Wrap("failed to create database connection", conn.err)]
    ELSE Bind(DbServicePing(conn.w, NewDbServiceFromDb(conn.db), env.reachable),
              LAMBDA ping :
      IF ping.err # NoErr
      THEN [w |-> DbServiceClose(ping.w, NewDbServiceFromDb(conn.db),
                                 env.dbCloseFails).w,
            svc |-> NilDbService,
            err |-> Wrap("failed to ping database", ping.err)]
      ELSE [w |-> ping.w, svc |-> NewDbServiceFromDb(conn.db), err |-> NoErr]))

\* --------------------------------------------------------------- container
NilResponseBuilder == [ptr |-> "nil", logger |-> NilWriter]

NewResponseBuilderService(loggerService) ==
  [ptr |-> "ok", logger |-> loggerService.logger]

NilContainer ==
  [ptr |-> "nil", LoggerService |-> NilLoggerService,
   ConfigService |-> NilConfigService, DbService |-> NilDbService,
   ResponseBuilder |-> NilResponseBuilder]

Return(w, container, err) ==
  [w |-> Log(w, "NewContainer.return", 0), container |-> container, err |-> err]

\* NewContainer returning what it has built together with the database error
NewContainer_PartialOnDbError(w, penv, env) ==
  Bind(NewConfigService(Log(w, "NewContainer", 0), penv), LAMBDA cfg :
    IF cfg.err # NoErr
    THEN Return(cfg.w, NilContainer, Wrap("failed to create config service", cfg.err))
    ELSE Bind(NewLoggerService(cfg.w, cfg.svc), LAMBDA lg :
      IF lg.err # NoErr
      THEN Return(lg.w, NilContainer,
                  Wrap("failed to create logger service", lg.err))
      ELSE Bind(NewDbService(lg.w, cfg.svc, env), LAMBDA db :
        IF db.err # NoErr
        THEN Return(LoggerServiceClose(db.w, lg.svc, env.logCloseFails).w,
                    [ptr |-> "ok", LoggerService |-> lg.svc,
                     ConfigService |-> cfg.svc, DbService |-> db.svc,
                     ResponseBuilder |-> NilResponseBuilder],
                    Wrap("failed to create database service", db.err))
        ELSE Return(Log(db.w, "NewResponseBuilderService", 0),
                    [ptr |-> "ok", LoggerService |-> lg.svc,
                     ConfigService |-> cfg.svc, DbService |-> db.svc,
                     ResponseBuilder |-> NewResponseBuilderService(lg.svc)],
                    NoErr))))

\* NewContainer without the clean-up of the logger when the database fails
NewContainer_NoRollback(w, penv, env) ==
  Bind(NewConfigService(Log(w, "NewContainer", 0), penv), LAMBDA cfg :
    IF cfg.err # NoErr
    THEN Return(cfg.w, NilContainer, Wrap("failed to create config service", cfg.err))
    ELSE Bind(NewLoggerService(cfg.w, cfg.svc), LAMBDA lg :
      IF lg.err # NoErr
      THEN Return(lg.w, NilContainer,
                  Wrap("failed to create logger service", lg.err))
      ELSE Bind(NewDbService(lg.w, cfg.svc, env), LAMBDA db :
        IF db.err # NoErr
        THEN Return(db.w, NilContainer,
                    Wrap("failed to create database service", db.err))
        ELSE Return(Log(db.w, "NewResponseBuilderService", 0),
                    [ptr |-> "ok", LoggerService |-> lg.svc,
                     ConfigService |-> cfg.svc, DbService |-> db.svc,
                     ResponseBuilder |-> NewResponseBuilderService(lg.svc)],
                    NoErr))))

\* NewContainer releasing in the order of acquisition: the database stage
\* leaves its pool to the caller, who closes the logger first and the pool next
NewContainer_AcquisitionOrder(w, penv, env) ==
  Bind(NewConfigService(Log(w, "NewContainer", 0), penv), LAMBDA cfg :
    IF cfg.err # NoErr
    THEN Return(cfg.w, NilContainer, Wrap("failed to create config service", cfg.err))
    ELSE Bind(NewLoggerService(cfg.w, cfg.svc), LAMBDA lg :
      IF lg.err # NoErr
      THEN Return(lg.w, NilContainer,
                  Wrap("failed to create logger service", lg.err))
      ELSE Bind(NewDbService_NoCloseOnPingFail(lg.w, cfg.svc, env), LAMBDA db :
        IF db.err # NoErr
        THEN Return(
               IF Len(db.w.pools) > 0
               THEN DbServiceClose(
                      LoggerServiceClose(db.w, lg.svc, env.logCloseFails).w,
                      NewDbServiceFromDb(Len(db.w.pools)), env.dbCloseFails).w
               ELSE LoggerServiceClose(db.w, lg.svc, env.logCloseFails).w,
               NilContainer,
               Wrap("failed to create database service", db.err))
        ELSE Return(Log(db.w, "NewResponseBuilderService", 0),
                    [ptr |-> "ok", LoggerService |-> lg.svc,
                     ConfigService |-> cfg.svc, DbService |-> db.svc,
                     ResponseBuilder |-> NewResponseBuilderService(lg.svc)],
                    NoErr))))

\* NewContainer opening a fallback log file when the configuration fails
NewContainer_FallbackLogOnConfigError(w, penv, env) ==
  Bind(NewConfigService(Log(w, "NewContainer", 0), penv), LAMBDA cfg :
    IF cfg.err # NoErr
    THEN Return(createLogWriter(cfg.w, <<"a">>).w, NilContainer,
                Wrap("failed to create config service", cfg.err))
    ELSE Bind(NewLoggerService(cfg.w, cfg.svc), LAMBDA lg :
      IF lg.err # NoErr
      THEN Return(lg.w, NilContainer,
                  Wrap("failed to create logger service", lg.err))
      ELSE Bind(NewDbService(lg.w, cfg.svc, env), LAMBDA db :
        IF db.err # NoErr
        THEN Return(LoggerServiceClose(db.w, lg.svc, env.logCloseFails).w,
                    NilContainer,
                    Wrap("failed to create database service", db.err))
        ELSE Return(Log(db.w, "NewResponseBuilderService", 0),
                    [ptr |-> "ok", LoggerService |-> lg.svc,
                     ConfigService |-> cfg.svc, DbService |-> db.svc,
                     ResponseBuilder |-> NewResponseBuilderService(lg.svc)],
                    NoErr))))

\* NewContainer building the database service before the logger service
NewContainer_DbBeforeLogger(w, penv, env) ==
  Bind(NewConfigService(Log(w, "NewContainer", 0), penv), LAMBDA cfg :
    IF cfg.err # NoErr
    THEN Return(cfg.w, NilContainer, Wrap("failed to create config service", cfg.err))
    ELSE Bind(NewDbService(cfg.w, cfg.svc, env), LAMBDA db :
      IF db.err # NoErr
      THEN Return(db.w, NilContainer,
                  Wrap("failed to create database service", db.err))
      ELSE Bind(NewLoggerService(db.w, cfg.svc), LAMBDA lg :
        IF lg.err # NoErr
        THEN Return(DbServiceClose(lg.w, db.svc, env.dbCloseFails).w,
                    NilContainer,
                    Wrap("failed to create logger service", lg.err))
        ELSE Return(Log(lg.w, "NewResponseBuilderService", 0),
                    [ptr |-> "ok", LoggerService |-> lg.svc,
                     ConfigService |-> cfg.svc, DbService |-> db.svc,
                     ResponseBuilder |-> NewResponseBuilderService(lg.svc)],
                    NoErr))))

\* NewContainer returning the error of the rollback close when that fails
NewContainer_CloseErrorMasks(w, penv, env) ==
  Bind(NewConfigService(Log(w, "NewContainer", 0), penv), LAMBDA cfg :
    IF cfg.err # NoErr
    THEN Return(cfg.w, NilContainer, Wrap("failed to create config service", cfg.err))
    ELSE Bind(NewLoggerService(cfg.w, cfg.svc), LAMBDA lg :
      IF lg.err # NoErr
      THEN Return(lg.w, NilContainer,
                  Wrap("failed to create logger service", lg.err))
      ELSE Bind(NewDbService(lg.w, cfg.svc, env), LAMBDA db :
        IF db.err # NoErr
        THEN Bind(LoggerServiceClose(db.w, lg.svc, env.logCloseFails),
                  LAMBDA closed :
               Return(closed.w, NilContainer,
                      IF closed.err # NoErr
                      THEN Wrap("failed to close logger service", closed.err)
                      ELSE Wrap("failed to create database service", db.err)))
        ELSE Return(Log(db.w, "NewResponseBuilderService", 0),
                    [ptr |-> "ok", LoggerService |-> lg.svc,
                     ConfigService |-> cfg.svc, DbService |-> db.svc,
                     ResponseBuilder |-> NewResponseBuilderService(lg.svc)],
                    NoErr))))

NewContainer(w, penv, env) ==
  Bind(NewConfigService(Log(w, "NewContainer", 0), penv), LAMBDA cfg :
    IF cfg.err # NoErr
    THEN Return(cfg.w, NilContainer, Wrap("failed to create config service", cfg.err))
    ELSE Bind(NewLoggerService(cfg.w, cfg.svc), LAMBDA lg :
      IF lg.err # NoErr
      THEN Return(lg.w, NilContainer,
                  Wrap("failed to create logger service", lg.err))
      ELSE Bind(NewDbService(lg.w, cfg.svc, env), LAMBDA db :
        IF db.err # NoErr
        THEN Return(LoggerServiceClose(db.w, lg.svc, env.logCloseFails).w,
                    NilContainer,
                    Wrap("failed to create database service", db.err))
        ELSE Return(Log(db.w, "NewResponseBuilderService", 0),
                    [ptr |-> "ok", LoggerService |-> lg.svc,
                     ConfigService |-> cfg.svc, DbService |-> db.svc,
                     ResponseBuilder |-> NewResponseBuilderService(lg.svc)],
                    NoErr))))

RECURSIVE Flatten(_)
Flatten(errors) ==
  IF errors = << >> THEN << >> ELSE Head(errors) \o Flatten(Tail(errors))

CloseError(msg, err) == IF err # NoErr THEN <<Wrap(msg, err)>> ELSE << >>

\* Container.Close returning at the first release that fails
ContainerClose_ShortCircuit(w, c, env) ==
  Bind(IF c.DbService.ptr # "nil"
       THEN DbServiceClose(Log(w, "Container.Close", 0), c.DbService,
                           env.dbCloseFails)
       ELSE [w |-> Log(w, "Container.Close", 0), err |-> NoErr], LAMBDA dbc :
    IF dbc.err # NoErr
    THEN [w |-> dbc.w, c |-> c,
          err |-> Wrap("errors during container shutdown",
                       Wrap("failed to close database service", dbc.err))]
    ELSE Bind(IF c.LoggerService.ptr # "nil"
              THEN LoggerServiceClose(dbc.w, c.LoggerService, env.logCloseFails)
              ELSE [w |-> dbc.w, err |-> NoErr], LAMBDA lgc :
      IF lgc.err # NoErr
      THEN [w |-> lgc.w, c |-> c,
            err |-> Wrap("errors during container shutdown",
                         Wrap("failed to close logger service", lgc.err))]
      ELSE [w |-> lgc.w, c |-> c, err |-> NoErr]))

\* Container.Close reporting only the first of the failures it collected
ContainerClose_FirstErrorOnly(w, c, env) ==
  Bind(IF c.DbService.ptr # "nil"
       THEN DbServiceClose(Log(w, "Container.Close", 0), c.DbService,
                           env.dbCloseFails)
       ELSE [w |-> Log(w, "Container.Close", 0), err |-> NoErr], LAMBDA dbc :
    Bind(IF c.LoggerService.ptr # "nil"
         THEN LoggerServiceClose(dbc.w, c.LoggerService, env.logCloseFails)
         ELSE [w |-> dbc.w, err |-> NoErr], LAMBDA lgc :
      Bind(CloseError("failed to close database service", dbc.err)
             \o CloseError("failed to close logger service", lgc.err),
           LAMBDA errors :
        IF Len(errors) > 0
        THEN [w |-> lgc.w, c |-> c,
              err |-> Wrap("errors during container shutdown", errors[1])]
        ELSE [w |-> lgc.w, c |-> c, err |-> NoErr])))

\* Container.Close returning at once when there is no database service
ContainerClose_NilDbReturns(w, c, env) ==
  IF c.DbService.ptr = "nil" \/ c.DbService.db = 0
  THEN [w |-> Log(w, "Container.Close", 0), c |-> c, err |-> NoErr]
  ELSE
  Bind(DbServiceClose(Log(w, "Container.Close", 0), c.DbService,
                      env.dbCloseFails), LAMBDA dbc :
    Bind(IF c.LoggerService.ptr # "nil"
         THEN LoggerServiceClose(dbc.w, c.LoggerService, env.logCloseFails)
         ELSE [w |-> dbc.w, err |-> NoErr], LAMBDA lgc :
      Bind(CloseError("failed to close database service", dbc.err)
             \o CloseError("failed to close logger service", lgc.err),
           LAMBDA errors :
        IF Len(errors) > 0
        THEN [w |-> lgc.w, c |-> c,
              err |-> Wrap("errors during container shutdown", Flatten(errors))]
        ELSE [w |-> lgc.w, c |-> c, err |-> NoErr])))

\* Container.Close dropping the database service once it has closed it
ContainerClose_ClearsDbField(w, c, env) ==
  Bind(IF c.DbService.ptr # "nil"
       THEN DbServiceClose(Log(w, "Container.Close", 0), c.DbService,
                           env.dbCloseFails)
       ELSE [w |-> Log(w, "Container.Close", 0), err |-> NoErr], LAMBDA dbc :
    Bind(IF c.LoggerService.ptr # "nil"
         THEN LoggerServiceClose(dbc.w, c.LoggerService, env.logCloseFails)
         ELSE [w |-> dbc.w, err |-> NoErr], LAMBDA lgc :
      Bind(CloseError("failed to close database service", dbc.err)
             \o CloseError("failed to close logger service", lgc.err),
           LAMBDA errors :
        IF Len(errors) > 0
        THEN [w |-> lgc.w, c |-> [c EXCEPT !.DbService = NilDbService],
              err |-> Wrap("errors during container shutdown", Flatten(errors))]
        ELSE [w |-> lgc.w, c |-> [c EXCEPT !.DbService = NilDbService],
              err |-> NoErr])))

\* Container.Close: both releases are attempted, the failures are collected;
\* c is the receiver as the call leaves it
ContainerClose(w, c, env) ==
  Bind(IF c.DbService.ptr # "nil"
       THEN DbServiceClose(Log(w, "Container.Close", 0), c.DbService,
                           env.dbCloseFails)
       ELSE [w |-> Log(w, "Container.Close", 0), err |-> NoErr], LAMBDA dbc :
    Bind(IF c.LoggerService.ptr # "nil"
         THEN LoggerServiceClose(dbc.w, c.LoggerService, env.logCloseFails)
         ELSE [w |-> dbc.w, err |-> NoErr], LAMBDA lgc :
      Bind(CloseError("failed to close database service", dbc.err)
             \o CloseError("failed to close logger service", lgc.err),
           LAMBDA errors :
        IF Len(errors) > 0
        THEN [w |-> lgc.w, c |-> c,
              err |-> Wrap("errors during container shutdown", Flatten(errors))]
        ELSE [w |-> lgc.w, c |-> c, err |-> NoErr])))

\* ------------------------------------------------------- environment files
\* the names of the env files of an application directory, as their parts:
\* .env.{env}.local, .env.local, .env.{env}, .env
LocalEnvFileName(env) == <<".env", env, "local">>
GenericLocalFileName == <<".env", "local">>
GenericEnvFileName(env) == <<".env", env>>
BaseEnvFileName == <<".env">>

AppEnvs == {"dev", "test", "local"}
EnvFileNames(env) ==
  {LocalEnvFileName(env), GenericLocalFileName, GenericEnvFileName(env),
   BaseEnvFileName}

\* a variable's value tells where it was set: by the process, or by a file
EnvKeys == {"APP_LOG_PATH", "DB_DSN"}
Unset == << >>
ProcessValue == <<"process">>
\* an env file is missing (os.Stat fails), cannot be read or parsed, or
\* defines some variables, each with a value of its own
MissingFile == [kind |-> "missing", keys |-> {}]
EnvFileContents ==
  {MissingFile, [kind |-> "bad", keys |-> {}]}
    \cup {[kind |-> "ok", keys |-> ks] : ks \in SUBSET EnvKeys}

\* godotenv.Load(name): a file that cannot be read or parsed sets nothing; a
\* variable already in the environment keeps its value
godotenvLoad(environ, files, name) ==
  IF files[name].kind = "bad"
  THEN [environ |-> environ, err |-> <<"load failed">>]
  ELSE [environ |-> [k \in EnvKeys |->
                       IF environ[k] # Unset THEN environ[k]
                       ELSE IF k \in files[name].keys THEN name ELSE Unset],
        err |-> NoErr]

\* if _, err := os.Stat(name); err == nil { godotenv.Load(name) ... }
LoadIfPresent(environ, files, name) ==
  IF files[name].kind = "missing" THEN [environ |-> environ, err |-> NoErr]
  ELSE Bind(godotenvLoad(environ, files, name), LAMBDA loaded :
         IF loaded.err # NoErr
         THEN [environ |-> loaded.environ,
               err |-> Wrap("error occurred while trying to load env file",
                            loaded.err)]
         ELSE loaded)

\* loadEnvVars loading .env.local in the test environment as well
loadEnvVars_LocalInTest(env, files, environ) ==
  Bind(LoadIfPresent(environ, files, LocalEnvFileName(env)), LAMBDA a :
    IF a.err # NoErr THEN a
    ELSE Bind(LoadIfPresent(a.environ, files, GenericLocalFileName), LAMBDA b :
      IF b.err # NoErr THEN b
      ELSE Bind(LoadIfPresent(b.environ, files, GenericEnvFileName(env)),
                LAMBDA c :
        IF c.err # NoErr THEN c
        ELSE LoadIfPresent(c.environ, files, BaseEnvFileName))))

loadEnvVars(env, files, environ) ==
  Bind(LoadIfPresent(environ, files, LocalEnvFileName(env)), LAMBDA a :
    IF a.err # NoErr THEN a
    ELSE Bind(IF env # "test"
              THEN LoadIfPresent(a.environ, files, GenericLocalFileName)
              ELSE a, LAMBDA b :
      IF b.err # NoErr THEN b
      ELSE Bind(LoadIfPresent(b.environ, files, GenericEnvFileName(env)),
                LAMBDA c :
        IF c.err # NoErr THEN c
        ELSE LoadIfPresent(c.environ, files, BaseEnvFileName))))

\* ---------------------------------------------------------------- processes
InitWorld(k) ==
  [kind |-> k, data |-> InitData(k), fds |-> << >>, pools |-> << >>,
   streams |-> [stdout |-> << >>, stderr |-> << >>], closedStreams |-> {},
   defaultLogger |-> NilWriter, trace |-> << >>]

\* the goroutines that call GetGlobalTestBootstrap
MaxCallers == 2
Callers == 1..MaxCallers
IdleCaller == [at |-> "idle", bootstrap |-> 0, err |-> NoErr, panic |-> << >>]

\* MigrationsRunnerOptions: the zero value
ZeroOptions ==
  [Logger |-> "nil", OutputWriter |-> "nil", ExitFunc |-> "nil", DbDsn |-> "",
   MigrationsDir |-> "", ExecutionsTable |-> "", LockName |-> "",
   LockFilesDirPath |-> "", MigrationsFactory |-> "nil"]

\* the process before any call, whatever the file system holds
InitProcess ==
  /\ world \in {InitWorld(k) : k \in InitKinds}
  /\ pc = "start"
  /\ origin = "none"
  /\ ret = [container |-> NilContainer, err |-> NoErr]
  /\ closeRets = << >>
  /\ writers = << >>
  /\ nwrites = 0
  /\ pings = << >>
  /\ got = [calls |-> {}, Config |-> ZeroConfig, Logger |-> NilWriter, Db |-> 0]
  /\ srv = [at |-> "main", exit |-> "none", routes |-> FALSE,
            listening |-> FALSE, closed |-> FALSE, sig |-> "off",
            stopped |-> FALSE, accepted |-> 0, inflight |-> 0,
            msgs |-> << >>]
  /\ cli = [at |-> "main", exit |-> "none"]
  /\ resp = [at |-> "none", err |-> << >>, unwraps |-> FALSE, Code |-> 0]
  /\ mig = [at |-> "idle", options |-> ZeroOptions, db |-> 0, panic |-> << >>]
  /\ boot = [done |-> FALSE, m |-> 0, running |-> FALSE, setups |-> 0,
             appEnv |-> "", globalBootstrap |-> 0,
             globalBootstrapErr |-> NoErr,
             callers |-> [c \in Callers |-> IdleCaller]]

\* no env file in the application directory, nothing set by the process
Init ==
  /\ InitProcess
  /\ dotenv = [phase |-> "input", env |-> "dev",
               files |-> [n \in EnvFileNames("dev") |-> MissingFile],
               environ |-> [k \in EnvKeys |-> Unset], err |-> NoErr]

Penvs == [fault : Faults, LogPath : PathStrings, Dsn : Dsns]
Envs == [reachable : BOOLEAN, dbCloseFails : BOOLEAN, logCloseFails : BOOLEAN]

\* main: container, err := registry.NewContainer()
NewContainerCall ==
  /\ pc = "start"
  /\ \E penv \in Penvs, env \in Envs :
       \E r \in {NewContainer(world, penv, env)} :
          /\ world' = r.w
          /\ ret' = [container |-> r.container, err |-> r.err]
  /\ pc' = "returned"
  /\ origin' = "NewContainer"
  /\ UNCHANGED <<closeRets, writers, nwrites>>
  /\ UNCHANGED aside

\* a Container assembled field by field, as a test helper does: the
\* database service absent, present without a pool, or present with one;
\* the logger service absent, without a writer, or built from a log path
LiteralLogPaths == {StdoutPath, StderrPath, <<"a">>}
LiteralConfig(logPath) ==
  [ptr |-> "ok", config |-> [LogPath |-> logPath, Db |-> [Dsn |-> "dsn"]]]

TestDbService(w, dbChoice) ==
  IF dbChoice = "nil" THEN [w |-> w, svc |-> NilDbService]
  ELSE IF dbChoice = "nopool" THEN [w |-> w, svc |-> NewDbServiceFromDb(0)]
  ELSE Bind(createDatabaseConnection(w, [Dsn |-> "dsn"]), LAMBDA conn :
         [w |-> conn.w, svc |-> NewDbServiceFromDb(conn.db)])

TestLoggerService(w, lgChoice, logPath) ==
  IF lgChoice = "nil" THEN [w |-> w, svc |-> NilLoggerService, err |-> NoErr]
  ELSE IF lgChoice = "nowriter"
  THEN [w |-> w, err |-> NoErr,
        svc |-> [ptr |-> "ok", logger |-> StdoutWriter, logWriter |-> NilWriter]]
  ELSE NewLoggerService(w, LiteralConfig(logPath))

NewTestContainer ==
  /\ pc = "start"
  /\ \E dbChoice \in {"nil", "nopool", "pool"},
        lgChoice \in {"nil", "nowriter", "built"},
        logPath \in LiteralLogPaths :
       \E db \in {TestDbService(world, dbChoice)} :
       \E lg \in {TestLoggerService(db.w, lgChoice, logPath)} :
          /\ lg.err = NoErr
          /\ world' = lg.w
          /\ ret' = [container |-> [ptr |-> "ok", LoggerService |-> lg.svc,
                                    ConfigService |-> LiteralConfig(logPath),
                                    DbService |-> db.svc,
                                    ResponseBuilder |-> NilResponseBuilder],
                     err |-> NoErr]
  /\ pc' = "returned"
  /\ origin' = "literal"
  /\ UNCHANGED <<closeRets, writers, nwrites>>
  /\ UNCHANGED aside

\* container.Close()
ContainerCloseCall ==
  /\ pc = "returned"
  /\ ret.container.ptr = "ok"
  /\ Len(closeRets) < MaxCloses
  /\ \E env \in Envs :
       \E r \in {ContainerClose(world, ret.container, env)} :
          /\ world' = r.w
          /\ ret' = [ret EXCEPT !.container = r.c]
          /\ closeRets' = Append(closeRets, r.err)
  /\ UNCHANGED <<pc, origin, writers, nwrites>>
  /\ UNCHANGED aside

\* container.Logger().Error(...): one record through the logger's writer;
\* slog drops the writer's error
LogRecord ==
  /\ pc = "returned"
  /\ ret.container.ptr = "ok"
  /\ ret.container.LoggerService.ptr = "ok"
  /\ nwrites < MaxWrites
  /\ world' = WriterWrite(world, ret.container.LoggerService.logger, nwrites + 1).w
  /\ nwrites' = nwrites + 1
  /\ UNCHANGED <<pc, origin, ret, closeRets, writers>>
  /\ UNCHANGED aside

\* ------------------------------------------- the log writer used directly
\* createLogWriter(cfg.LogPath), as NewLoggerService calls it: the log path
\* is the one setting of the process, so every call is given the same path
OpsDone == Len(writers) + nwrites + Len(closeRets)

LogPathsOf(ws) == IF ws = << >> THEN PathStrings ELSE {ws[1].path}

CreateLogWriterCall ==
  /\ pc = "start"
  /\ OpsDone < MaxOps
  /\ \E logPath \in LogPathsOf(writers) :
       \E r \in {createLogWriter(world, logPath)} :
          /\ world' = r.w
          /\ writers' = Append(writers, [path |-> logPath, writer |-> r.writer,
                                         err |-> r.err, at |-> nwrites,
                                         written |-> << >>])
  /\ UNCHANGED <<pc, origin, ret, closeRets, nwrites>>
  /\ UNCHANGED aside

\* writer.Write(p) on a writer createLogWriter returned
WriterWriteCall ==
  /\ OpsDone < MaxOps
  /\ \E i \in 1..Len(writers) :
       /\ writers[i].writer # NilWriter
       /\ \E r \in {WriterWrite(world, writers[i].writer, nwrites + 1)} :
            /\ world' = r.w
            /\ writers' = [writers EXCEPT ![i].written =
                             IF r.err = NoErr THEN Append(@, nwrites + 1) ELSE @]
  /\ nwrites' = nwrites + 1
  /\ UNCHANGED <<pc, origin, ret, closeRets>>
  /\ UNCHANGED aside

\* writer.Close() on a writer createLogWriter returned
WriterCloseCall ==
  /\ OpsDone < MaxOps
  /\ \E i \in 1..Len(writers), fails \in BOOLEAN :
       /\ writers[i].writer # NilWriter
       /\ \E r \in {WriterClose(world, writers[i].writer, fails)} :
            /\ world' = r.w
            /\ closeRets' = Append(closeRets, r.err)
  /\ UNCHANGED <<pc, origin, ret, writers, nwrites>>
  /\ UNCHANGED aside

\* ------------------------------------------------ the database health check
\* container.Ping(ctx), the Container's promoted (*DbService).Ping: with each
\* result are kept the pool handle and the probes the call made
ProbesOf(tr) == {i \in 1..Len(tr) : tr[i].op = "db.PingContext"}

PingCall ==
  /\ pc = "returned"
  /\ ret.container.ptr = "ok"
  /\ ret.container.DbService.ptr = "ok"
  /\ Len(pings) < MaxPings
  /\ \E reachable \in BOOLEAN :
       \E r \in {DbServicePing(world, ret.container.DbService, reachable)} :
          /\ world' = r.w
          /\ pings' = Append(pings,
               [db |-> ret.container.DbService.db, err |-> r.err,
                probes |-> [i \in ProbesOf(r.w.trace) \ ProbesOf(world.trace)
                              |-> r.w.trace[i].ok]])
  /\ UNCHANGED <<pc, origin, ret, closeRets, writers, nwrites, got, srv, dotenv, apart>>

\* ------------------------------------------------------------ the accessors
\* (*ConfigService).Config, (*LoggerService).Logger and (*DbService).Db,
\* promoted to the Container: each returns a field of its service
Config(c) == c.ConfigService.config
Logger(c) == c.LoggerService.logger
Db(c) == c.DbService.db

AccessorCall ==
  /\ pc = "returned"
  /\ ret.container.ptr = "ok"
  /\ \/ /\ ret.container.ConfigService.ptr = "ok"
        /\ got' = [got EXCEPT !.calls = @ \cup {"Config"},
                              !.Config = Config(ret.container)]
     \/ /\ ret.container.LoggerService.ptr = "ok"
        /\ got' = [got EXCEPT !.calls = @ \cup {"Logger"},
                              !.Logger = Logger(ret.container)]
     \/ /\ ret.container.DbService.ptr = "ok"
        /\ got' = [got EXCEPT !.calls = @ \cup {"Db"},
                              !.Db = Db(ret.container)]
  /\ UNCHANGED <<world, pc, origin, ret, closeRets, writers, nwrites, pings, srv, dotenv, apart>>

NextUse ==
  \/ NewContainerCall
  \/ NewTestContainer
  \/ ContainerCloseCall
  \/ AccessorCall

SpecUse == Init /\ [][NextUse]_vars

\* ----------------------------------------------------- the HTTP server process
\* logger.Info / Warn / Error: record id goes to the logger's writer, and slog
\* drops the error of a write that fails
SlogWrite(w, c, id) == WriterWrite(w, Logger(c), id).w

Logged(msg) == [srv EXCEPT !.msgs = Append(@, msg)]

\* main: the container could not be built, panic(...) before any defer
MainPanic ==
  /\ srv.at = "main"
  /\ pc = "returned"
  /\ ret.err # NoErr
  /\ srv' = [srv EXCEPT !.at = "exited", !.exit = "panic"]
  /\ UNCHANGED <<world, pc, origin, ret, closeRets, writers, nwrites, pings, got, dotenv, apart>>

\* main registering routes before it has asked for the container
MainRegisterRoutes_BeforeNewContainer ==
  /\ srv.at = "main"
  /\ pc = "start"
  /\ ~srv.routes
  /\ srv' = [srv EXCEPT !.routes = TRUE]
  /\ UNCHANGED <<world, pc, origin, ret, closeRets, writers, nwrites, pings, got, dotenv, apart>>

\* main: the deferred Close is registered, "Starting web server" is logged,
\* routes.RegisterRoutes(router, container)
MainRegisterRoutes ==
  /\ srv.at = "main"
  /\ pc = "returned"
  /\ ret.err = NoErr
  /\ world' = SlogWrite(world, ret.container, nwrites + 1)
  /\ nwrites' = nwrites + 1
  /\ srv' = [Logged("Starting web server") EXCEPT !.at = "registered",
                                                  !.routes = TRUE]
  /\ UNCHANGED <<pc, origin, ret, closeRets, writers, pings, got, dotenv, apart>>

\* startServer up to the call of ListenAndServe: the signal goroutine is
\* started, "HTTP server starting" is logged
StartServerSetup ==
  /\ srv.at = "registered"
  /\ world' = SlogWrite(world, ret.container, nwrites + 1)
  /\ nwrites' = nwrites + 1
  /\ srv' = [Logged("HTTP server starting") EXCEPT !.at = "setup",
                                                   !.sig = "armed"]
  /\ UNCHANGED <<pc, origin, ret, closeRets, writers, pings, got, dotenv, apart>>

\* server.ListenAndServe(): ErrServerClosed at once when Shutdown was called
\* already; otherwise the address is bound and requests are served, or the
\* bind fails, the failure is logged and startServer returns
ListenAndServe ==
  /\ srv.at = "setup"
  /\ \/ /\ srv.closed
        /\ srv' = [srv EXCEPT !.at = "waiting"]
        /\ UNCHANGED <<world, nwrites>>
     \/ /\ ~srv.closed
        /\ srv' = [srv EXCEPT !.at = "listening", !.listening = TRUE]
        /\ UNCHANGED <<world, nwrites>>
     \/ /\ ~srv.closed
        /\ world' = SlogWrite(world, ret.container, nwrites + 1)
        /\ nwrites' = nwrites + 1
        /\ srv' = [Logged("HTTP server failed to start") EXCEPT !.at = "deferred"]
  /\ UNCHANGED <<pc, origin, ret, closeRets, writers, pings, got, dotenv, apart>>

\* the signal goroutine: a signal arrives, it is logged, server.Shutdown is
\* called and stops the listener
SignalReceived ==
  /\ srv.sig = "armed"
  /\ srv.at # "exited"
  /\ world' = SlogWrite(world, ret.container, nwrites + 1)
  /\ nwrites' = nwrites + 1
  /\ srv' = [Logged("Shutdown signal received") EXCEPT !.sig = "shutting",
                                                       !.closed = TRUE]
  /\ UNCHANGED <<pc, origin, ret, closeRets, writers, pings, got, dotenv, apart>>

\* ListenAndServe returns ErrServerClosed once Shutdown has been called
ListenReturns ==
  /\ srv.at = "listening"
  /\ srv.closed
  /\ srv' = [srv EXCEPT !.at = "waiting", !.listening = FALSE]
  /\ UNCHANGED <<world, pc, origin, ret, closeRets, writers, nwrites, pings, got, dotenv, apart>>

\* a request is accepted and its handler starts, in a goroutine of its own
RequestArrives ==
  /\ srv.at = "listening"
  /\ ~srv.closed
  /\ srv.accepted < MaxRequests
  /\ srv' = [srv EXCEPT !.accepted = @ + 1, !.inflight = @ + 1]
  /\ UNCHANGED <<world, pc, origin, ret, closeRets, writers, nwrites, pings,
                 got, dotenv, apart>>

\* a handler finishes, and the access logger middleware logs the request
RequestDone ==
  /\ srv.inflight > 0
  /\ srv.at # "exited"
  /\ world' = SlogWrite(world, ret.container, nwrites + 1)
  /\ nwrites' = nwrites + 1
  /\ srv' = [Logged("HTTP request") EXCEPT !.inflight = @ - 1]
  /\ UNCHANGED <<pc, origin, ret, closeRets, writers, pings, got, dotenv, apart>>

\* the signal goroutine leaving without serverStopCtx() when Shutdown failed
ShutdownReturns_NoStopOnError ==
  /\ srv.sig = "shutting"
  /\ srv.at # "exited"
  /\ \E inTime \in BOOLEAN :
       /\ inTime => srv.inflight = 0
       /\ world' = SlogWrite(world, ret.container, nwrites + 1)
       /\ srv' = [Logged(IF inTime THEN "Server shutdown initiated successfully"
                         ELSE "Error during server shutdown")
                    EXCEPT !.sig = "done", !.stopped = inTime]
  /\ nwrites' = nwrites + 1
  /\ UNCHANGED <<pc, origin, ret, closeRets, writers, pings, got, dotenv, apart>>

\* the signal goroutine: Shutdown returns, nil once no handler is running, or
\* an error when the grace period has elapsed first or the listener's Close
\* failed; its outcome is logged and serverStopCtx() is called
ShutdownReturns ==
  /\ srv.sig = "shutting"
  /\ srv.at # "exited"
  /\ \E inTime \in BOOLEAN :
       /\ inTime => srv.inflight = 0
       /\ world' = SlogWrite(world, ret.container, nwrites + 1)
       /\ srv' = [Logged(IF inTime THEN "Server shutdown initiated successfully"
                         ELSE "Error during server shutdown")
                    EXCEPT !.sig = "done", !.stopped = TRUE]
  /\ nwrites' = nwrites + 1
  /\ UNCHANGED <<pc, origin, ret, closeRets, writers, pings, got, dotenv, apart>>

\* startServer returning as soon as ListenAndServe has returned
ShutdownComplete_NoWait ==
  /\ srv.at = "waiting"
  /\ world' = SlogWrite(world, ret.container, nwrites + 1)
  /\ nwrites' = nwrites + 1
  /\ srv' = [Logged("HTTP server shutdown complete") EXCEPT !.at = "deferred"]
  /\ UNCHANGED <<pc, origin, ret, closeRets, writers, pings, got, dotenv, apart>>

\* startServer: <-serverCtx.Done(), "HTTP server shutdown complete", return
ShutdownComplete ==
  /\ srv.at = "waiting"
  /\ srv.stopped
  /\ world' = SlogWrite(world, ret.container, nwrites + 1)
  /\ nwrites' = nwrites + 1
  /\ srv' = [Logged("HTTP server shutdown complete") EXCEPT !.at = "deferred"]
  /\ UNCHANGED <<pc, origin, ret, closeRets, writers, pings, got, dotenv, apart>>

\* main returns: the deferred function calls container.Close() and logs its
\* error through container.Logger(); then the process exits
MainDeferredClose ==
  /\ srv.at = "deferred"
  /\ \E env \in Envs :
       \E r \in {ContainerClose(world, ret.container, env)} :
          /\ ret' = [ret EXCEPT !.container = r.c]
          /\ closeRets' = Append(closeRets, r.err)
          /\ IF r.err # NoErr
             THEN /\ world' = SlogWrite(r.w, r.c, nwrites + 1)
                  /\ nwrites' = nwrites + 1
                  /\ srv' = [Logged("Failed to close container during shutdown")
                               EXCEPT !.at = "exited", !.exit = "return"]
             ELSE /\ world' = r.w
                  /\ nwrites' = nwrites
                  /\ srv' = [srv EXCEPT !.at = "exited", !.exit = "return"]
  /\ UNCHANGED <<pc, origin, writers, pings, got, dotenv, apart>>

NextServer ==
  \/ NewContainerCall
  \/ MainPanic
  \/ MainRegisterRoutes
  \/ StartServerSetup
  \/ ListenAndServe
  \/ SignalReceived
  \/ ListenReturns
  \/ RequestArrives
  \/ RequestDone
  \/ ShutdownReturns
  \/ ShutdownComplete
  \/ MainDeferredClose

SpecServer == Init /\ [][NextServer]_vars

\* --------------------------------------------------- loading the env files
\* BuildConfig: loadEnvVars(appEnv, appDir), for any environment name, any
\* env files in the application directory and any process environment
DotenvInputs ==
  UNION {[phase : {"input"}, env : {e},
          files : [EnvFileNames(e) -> EnvFileContents],
          environ : [EnvKeys -> {Unset, ProcessValue}],
          err : {NoErr}] : e \in AppEnvs}

InitEnv ==
  /\ InitProcess
  /\ dotenv \in DotenvInputs

LoadEnvVarsCall ==
  /\ dotenv.phase = "input"
  /\ \E r \in {loadEnvVars(dotenv.env, dotenv.files, dotenv.environ)} :
       dotenv' = [dotenv EXCEPT !.phase = "loaded", !.environ = r.environ,
                                !.err = r.err]
  /\ UNCHANGED <<world, pc, origin, ret, closeRets, writers, nwrites, pings,
                 got, srv, apart>>

NextEnv == LoadEnvVarsCall

SpecEnv == InitEnv /\ [][NextEnv]_vars

\* the Go scheduler runs main and the signal goroutine whenever they can
\* take a step, and Shutdown returns when the grace period ends at the latest
SpecServerFair ==
  /\ SpecServer
  /\ WF_vars(ListenAndServe)
  /\ WF_vars(ListenReturns)
  /\ WF_vars(ShutdownReturns)
  /\ WF_vars(ShutdownComplete)

\* ----------------------------------------------------------- the CLI process
\* availableCommands(container): the commands the application registers
availableCommands == << >>

\* main: the container could not be built, the error is printed to stderr,
\* os.Exit(1)
CliExitOnError ==
  /\ cli.at = "main"
  /\ pc = "returned"
  /\ ret.err # NoErr
  /\ world' = [world EXCEPT !.streams.stderr = Append(@, nwrites + 1)]
  /\ nwrites' = nwrites + 1
  /\ cli' = [at |-> "exited", exit |-> "os.Exit"]
  /\ UNCHANGED <<pc, origin, ret, closeRets, writers, pings, got, srv, dotenv, notCli>>

\* main: the deferred Close is registered, "Starting CLI application" is
\* logged, the commands registry is created
CliStart ==
  /\ cli.at = "main"
  /\ pc = "returned"
  /\ ret.err = NoErr
  /\ world' = SlogWrite(world, ret.container, nwrites + 1)
  /\ nwrites' = nwrites + 1
  /\ cli' = [cli EXCEPT !.at = "registering"]
  /\ UNCHANGED <<pc, origin, ret, closeRets, writers, pings, got, srv, dotenv, notCli>>

\* main: each available command is registered; the first registration that
\* fails is logged and ends the process with os.Exit(1)
CliRegisterCommands ==
  /\ cli.at = "registering"
  /\ \E failsAt \in 0..Len(availableCommands) :
       IF failsAt = 0
       THEN /\ cli' = [cli EXCEPT !.at = "bootstrap"]
            /\ UNCHANGED <<world, nwrites>>
       ELSE /\ world' = SlogWrite(world, ret.container, nwrites + 1)
            /\ nwrites' = nwrites + 1
            /\ cli' = [at |-> "exited", exit |-> "os.Exit"]
  /\ UNCHANGED <<pc, origin, ret, closeRets, writers, pings, got, srv, dotenv, notCli>>

\* cli.Bootstrap(os.Args[1:], commandRegistry, os.Stdout, os.Exit): the
\* command runs, and Bootstrap either calls the exit function it was given,
\* os.Exit, which ends the process at once, or returns to main
CliBootstrap ==
  /\ cli.at = "bootstrap"
  /\ \E exits \in BOOLEAN :
       cli' = IF exits THEN [at |-> "exited", exit |-> "os.Exit"]
              ELSE [cli EXCEPT !.at = "deferred"]
  /\ UNCHANGED <<world, pc, origin, ret, closeRets, writers, nwrites, pings,
                 got, srv, dotenv, notCli>>

\* main returns: the deferred function calls container.Close() and logs its
\* error; then the process exits
CliDeferredClose ==
  /\ cli.at = "deferred"
  /\ \E env \in Envs :
       \E r \in {ContainerClose(world, ret.container, env)} :
          /\ ret' = [ret EXCEPT !.container = r.c]
          /\ closeRets' = Append(closeRets, r.err)
          /\ world' = IF r.err # NoErr THEN SlogWrite(r.w, r.c, nwrites + 1)
                      ELSE r.w
          /\ nwrites' = IF r.err # NoErr THEN nwrites + 1 ELSE nwrites
  /\ cli' = [at |-> "exited", exit |-> "return"]
  /\ UNCHANGED <<pc, origin, writers, pings, got, srv, dotenv, notCli>>

NextCli ==
  \/ NewContainerCall
  \/ CliExitOnError
  \/ CliStart
  \/ CliRegisterCommands
  \/ CliBootstrap
  \/ CliDeferredClose

SpecCli == Init /\ [][NextCli]_vars

\* ------------------------------------------------------- the error responses
StatusBadRequest == 400
StatusInternalServerError == 500

MaxChain == 2

\* an error value: the dynamic types of its chain, the outermost first
ErrorTypes == {"*domain.Error", "*errors.errorString", "*fmt.wrapError"}
ErrorValues == UNION {[1..n -> ErrorTypes] : n \in 1..MaxChain}

\* setupErrorCategories with AddErrorType left out
setupErrorCategories_NoErrorType ==
  <<[status |-> StatusBadRequest, types |-> {}]>>

\* setupErrorCategories: one category, bad request, holding *domain.Error
setupErrorCategories ==
  <<[status |-> StatusBadRequest, types |-> {"*domain.Error"}]>>

\* (*ErrorCategory).Matches: the error is of a type of the category; the
\* library decides whether the errors it wraps count (unwraps)
Matches(category, err, unwraps) ==
  \E i \in 1..(IF unwraps THEN Len(err) ELSE 1) : err[i] \in category.types

\* the status the error builder sends: that of the first category the error
\* matches, internal server error when it matches none
StatusOf(categories, err, unwraps) ==
  IF \E k \in 1..Len(categories) : Matches(categories[k], err, unwraps)
  THEN categories[CHOOSE k \in 1..Len(categories) :
                    /\ Matches(categories[k], err, unwraps)
                    /\ \A j \in 1..(k - 1) :
                          ~Matches(categories[j], err, unwraps)].status
  ELSE StatusInternalServerError

\* rbs.NewErrorBuilder(w, r).WithError(err).Send() on a fresh recorder
NewErrorBuilderSend ==
  /\ pc = "returned"
  /\ ret.err = NoErr
  /\ ret.container.ResponseBuilder.ptr = "ok"
  /\ resp.at = "none"
  /\ \E err \in ErrorValues, unwraps \in BOOLEAN :
       resp' = [at |-> "sent", err |-> err, unwraps |-> unwraps,
                Code |-> StatusOf(setupErrorCategories, err, unwraps)]
  /\ UNCHANGED <<world, pc, origin, ret, closeRets, writers, nwrites, pings,
                 got, srv, dotenv, notResp>>

NextResp ==
  \/ NewContainerCall
  \/ NewErrorBuilderSend

SpecResp == Init /\ [][NextResp]_vars

\* ------------------------------------------------------ the migrations runner
\* MigrationsRunnerOptions: the options a caller passes
RunnerOptions ==
  [Logger : {"nil", "logger"}, OutputWriter : {"nil"},
   ExitFunc : {"nil", "func"}, DbDsn : Dsns,
   MigrationsDir : {"", "versions", "missing"}, ExecutionsTable : {""},
   LockName : {""}, LockFilesDirPath : {""},
   MigrationsFactory : {"nil", "factory"}]

\* RunMigrations, the required options: the panic of the first that is missing
RequiredOptions(options) ==
  IF options.DbDsn = ""
  THEN <<"Could not bootstrap migrations. DbDsn is required">>
  ELSE IF options.Logger = "nil"
  THEN <<"Could not bootstrap migrations. Logger is required">>
  ELSE IF options.MigrationsDir = ""
  THEN <<"Could not bootstrap migrations. MigrationsDir is required">>
  ELSE << >>

\* RunMigrations, the defaults of the options left at their zero value
DefaultOptions(options) ==
  [options EXCEPT
     !.OutputWriter = IF @ = "nil" THEN "os.Stdout" ELSE @,
     !.ExitFunc = IF @ = "nil" THEN "os.Exit" ELSE @,
     !.ExecutionsTable = IF @ = "" THEN "migration_executions" ELSE @,
     !.LockName = IF @ = "" THEN "app-migrations-lock" ELSE @,
     !.LockFilesDirPath = IF @ = "" THEN "os.TempDir()" ELSE @]

\* createDatabaseConnection of the runner: sql.Open, then the pool settings
runnerCreateDatabaseConnection(w, dbDsn) ==
  Bind(sqlOpen(w, dbDsn), LAMBDA opened :
    IF opened.err # NoErr
    THEN [w |-> opened.w, db |-> 0,
          err |-> Wrap("failed to open database connection", opened.err)]
    ELSE [w |-> [opened.w EXCEPT !.pools[opened.db].configured = TRUE],
          db |-> opened.db, err |-> NoErr])

\* RunMigrations with no deferred function
RunMigrationsDeferred_Nothing(w, db, fails) == w

\* RunMigrations, the deferred function: _ = db.Close()
RunMigrationsDeferred(w, db, fails) == DbClose(w, db, fails).w

\* RunMigrations up to the deferred Close: the required options, the
\* defaults, the connection
RunMigrationsCall ==
  /\ mig.at = "idle"
  /\ \E options \in RunnerOptions :
       IF RequiredOptions(options) # << >>
       THEN /\ mig' = [at |-> "panicked", options |-> options, db |-> 0,
                       panic |-> RequiredOptions(options)]
            /\ UNCHANGED world
       ELSE \E conn \in {runnerCreateDatabaseConnection(world, options.DbDsn)} :
              /\ world' = conn.w
              /\ mig' = IF conn.err # NoErr
                        THEN [at |-> "panicked",
                              options |-> DefaultOptions(options), db |-> 0,
                              panic |-> Wrap("could not bootstrap migrations. Error building db connection", conn.err)]
                        ELSE [at |-> "opened",
                              options |-> DefaultOptions(options),
                              db |-> conn.db, panic |-> << >>]
  /\ UNCHANGED <<pc, origin, ret, closeRets, writers, nwrites, pings, got, srv,
                 dotenv, notMig>>

\* RunMigrations from the directory path to the registry: a directory that
\* is not there, a repository that cannot be built and a factory that
\* panics end the call with a panic, and the deferred function runs
RunMigrationsSetup ==
  /\ mig.at = "opened"
  /\ \E repoFails \in BOOLEAN, factoryPanics \in BOOLEAN, fails \in BOOLEAN :
       \E panic \in {IF mig.options.MigrationsDir = "missing"
                     THEN <<"invalid migrations directory path">>
                     ELSE IF repoFails
                     THEN <<"failed to build migration executions repository">>
                     ELSE IF mig.options.MigrationsFactory # "nil"
                             /\ factoryPanics
                     THEN <<"MigrationsFactory">>
                     ELSE << >>} :
         IF panic # << >>
         THEN /\ world' = RunMigrationsDeferred(world, mig.db, fails)
              /\ mig' = [mig EXCEPT !.at = "panicked", !.panic = panic]
         ELSE /\ mig' = [mig EXCEPT !.at = "bootstrap"]
              /\ UNCHANGED world
  /\ UNCHANGED <<pc, origin, ret, closeRets, writers, nwrites, pings, got, srv,
                 dotenv, notMig>>

\* cli.Bootstrap(args, reg, repo, dirPath, nil, OutputWriter, ExitFunc, ...):
\* it returns, it panics, or it calls the exit function; os.Exit ends the
\* process at once, any other exit function returns to Bootstrap
RunMigrationsBootstrap ==
  /\ mig.at = "bootstrap"
  /\ \E outcome \in {"returns", "panics", "exits"}, fails \in BOOLEAN :
       IF outcome = "exits" /\ mig.options.ExitFunc = "os.Exit"
       THEN /\ mig' = [mig EXCEPT !.at = "exited"]
            /\ UNCHANGED world
       ELSE /\ world' = RunMigrationsDeferred(world, mig.db, fails)
            /\ mig' = IF outcome = "panics"
                      THEN [mig EXCEPT !.at = "panicked",
                                       !.panic = <<"cli.Bootstrap">>]
                      ELSE [mig EXCEPT !.at = "returned"]
  /\ UNCHANGED <<pc, origin, ret, closeRets, writers, nwrites, pings, got, srv,
                 dotenv, notMig>>

NextMig ==
  \/ RunMigrationsCall
  \/ RunMigrationsSetup
  \/ RunMigrationsBootstrap

SpecMig == Init /\ [][NextMig]_vars

\* ------------------------------------------------- the global test bootstrap
\* SetupTestEnvironment, the stage that fails and the panic it raises
SetupFailures == {"none", "config", "db", "remove", "setup"}

SetupPanic(failure) ==
  CASE failure = "config" ->
         <<"Could not bootstrap tests. Error building config service">>
    [] failure = "db" ->
         <<"Could not bootstrap tests. Failed to open database connection">>
    [] failure = "remove" ->
         <<"Could not bootstrap tests. Error cleaning up test db">>
    [] failure = "setup" ->
         <<"Could not bootstrap tests. Error setting up test db">>
    [] OTHER -> << >>

\* sync.Once.Do, the fast path: done is set and f is not called
OnceDone(b) == b.done

\* a Once whose mutex is never held
OnceMutexFree_Always(b) == TRUE

\* sync.Once.doSlow, o.m.Lock(): the mutex can be taken when no one holds it
OnceMutexFree(b) == b.m = 0

\* GetGlobalTestBootstrap -> initializeGlobalBootstrap -> Once.Do: the load
\* of done
GetGlobalTestBootstrapCall(c) ==
  /\ boot.callers[c].at = "idle"
  /\ boot' = [boot EXCEPT !.callers[c].at =
                            IF OnceDone(boot) THEN "read" ELSE "lock"]
  /\ UNCHANGED <<world, pc, origin, ret, closeRets, writers, nwrites, pings,
                 got, srv, dotenv, notBoot>>

\* Once.doSlow: the mutex is taken; with done set the call unlocks and
\* returns, otherwise f starts: SetupTestEnvironment sets APP_ENV when it
\* is empty
OnceDoSlow(c) ==
  /\ boot.callers[c].at = "lock"
  /\ OnceMutexFree(boot)
  /\ boot' = IF OnceDone(boot)
             THEN [boot EXCEPT !.callers[c].at = "read"]
             ELSE [boot EXCEPT !.m = c, !.running = TRUE,
                               !.setups = @ + 1,
                               !.appEnv = IF @ = "" THEN "test" ELSE @,
                               !.callers[c].at = "setup"]
  /\ UNCHANGED <<world, pc, origin, ret, closeRets, writers, nwrites, pings,
                 got, srv, dotenv, notBoot>>

\* SetupTestEnvironment ends: it returns a new Bootstrap and a nil error,
\* which are stored in the globals, or it panics and the globals stay; the
\* deferred functions of doSlow set done and unlock the mutex
SetupTestEnvironmentEnds(c) ==
  /\ boot.callers[c].at = "setup"
  /\ \E failure \in SetupFailures :
       boot' = IF failure = "none"
               THEN [boot EXCEPT !.globalBootstrap = boot.setups,
                                 !.globalBootstrapErr = NoErr,
                                 !.done = TRUE, !.m = 0, !.running = FALSE,
                                 !.callers[c].at = "read"]
               ELSE [boot EXCEPT !.done = TRUE, !.m = 0, !.running = FALSE,
                                 !.callers[c].at = "panicked",
                                 !.callers[c].panic = SetupPanic(failure)]
  /\ UNCHANGED <<world, pc, origin, ret, closeRets, writers, nwrites, pings,
                 got, srv, dotenv, notBoot>>

\* GetGlobalTestBootstrap: return globalBootstrap, globalBootstrapErr
GetGlobalTestBootstrapReturns(c) ==
  /\ boot.callers[c].at = "read"
  /\ boot' = [boot EXCEPT !.callers[c].at = "returned",
                          !.callers[c].bootstrap = boot.globalBootstrap,
                          !.callers[c].err = boot.globalBootstrapErr]
  /\ UNCHANGED <<world, pc, origin, ret, closeRets, writers, nwrites, pings,
                 got, srv, dotenv, notBoot>>

NextBoot ==
  \E c \in Callers :
     \/ GetGlobalTestBootstrapCall(c)
     \/ OnceDoSlow(c)
     \/ SetupTestEnvironmentEnds(c)
     \/ GetGlobalTestBootstrapReturns(c)

SpecBoot == Init /\ [][NextBoot]_vars

NextPing ==
  \/ NewContainerCall
  \/ NewTestContainer
  \/ ContainerCloseCall
  \/ PingCall

SpecPing == Init /\ [][NextPing]_vars

NextLog ==
  \/ CreateLogWriterCall
  \/ WriterWriteCall
  \/ WriterCloseCall

SpecLog == Init /\ [][NextLog]_vars

Next ==
  \/ NewContainerCall
  \/ NewTestContainer
  \/ ContainerCloseCall
  \/ LogRecord

Spec == Init /\ [][Next]_vars

\* =============================================================== properties
\* ----------------------------------------------------- reading the trace
Positions(tr, ops) == {i \in 1..Len(tr) : tr[i].op \in ops}
Count(tr, ops) == Cardinality(Positions(tr, ops))
Has(tr, ops) == Positions(tr, ops) # {}
Before(tr, ops1, ops2) ==
  \A i \in Positions(tr, ops1), j \in Positions(tr, ops2) : i < j
Contains(err, msg) == \E i \in 1..Len(err) : err[i] = msg

WriterCloseOps == {"file.Close", "stdoutWriter.Close", "stderrWriter.Close"}

\* NewContainer has returned, and no later call has touched its result
Constructed == origin = "NewContainer" /\ pc = "returned" /\ closeRets = << >>
ConstructionFailed == Constructed /\ ret.err # NoErr
\* the stage that failed, read off the calls made
OpenFailed == \E i \in 1..Len(world.trace) :
                world.trace[i].op = "sql.Open" /\ ~world.trace[i].ok
PingFailed == \E i \in 1..Len(world.trace) :
                world.trace[i].op = "db.PingContext" /\ ~world.trace[i].ok
DbStageFailed == ConstructionFailed /\ Has(world.trace, {"NewDbService"})

\* a Container all of whose services exist and hold open resources
FullyUsable(c) ==
  /\ c.ptr = "ok"
  /\ c.ConfigService.ptr = "ok"
  /\ c.LoggerService.ptr = "ok"
  /\ c.LoggerService.logger # NilWriter
  /\ c.LoggerService.logWriter # NilWriter
  /\ c.LoggerService.logWriter.variant = "file"
       => world.fds[c.LoggerService.logWriter.fd].open
  /\ c.DbService.ptr = "ok"
  /\ c.DbService.db # 0
  /\ ~world.pools[c.DbService.db].closed
  /\ world.pools[c.DbService.db].configured
  /\ c.ResponseBuilder.ptr = "ok"
  /\ c.ResponseBuilder.logger = c.LoggerService.logger

\* C1: NewContainer returns either a nil error with a Container all of whose
\* services are non-nil and initialized, or an error with a nil Container.
C1_NoPartialContainer ==
  Constructed =>
    \/ ret.err = NoErr /\ FullyUsable(ret.container)
    \/ ret.err # NoErr /\ ret.container = NilContainer

C1_Witness ==
  /\ Constructed
  /\ ret.err = NoErr
  /\ ret.container.LoggerService.logWriter.variant = "file"

\* C2: after a NewContainer call that returned an error, whichever stage
\* failed, no descriptor and no pool opened by the call is still open.
C2_NothingOpenAfterFailure ==
  ConstructionFailed =>
    /\ \A i \in 1..Len(world.fds) : ~world.fds[i].open
    /\ \A j \in 1..Len(world.pools) : world.pools[j].closed

C2_Witness ==
  /\ ConstructionFailed
  /\ Len(world.fds) = 1
  /\ Len(world.pools) = 1

\* C3: when the database stage fails after the logger stage succeeded, the
\* logger's writer is closed exactly once, and before NewContainer returns.
C3_LoggerClosedOnceBeforeReturn ==
  DbStageFailed =>
    /\ Count(world.trace, {"LoggerService.Close"}) = 1
    /\ Count(world.trace, WriterCloseOps) = 1
    /\ Before(world.trace, {"LoggerService.Close"}, WriterCloseOps)
    /\ Before(world.trace, WriterCloseOps, {"NewContainer.return"})
    /\ \A i \in Positions(world.trace, {"file.Close"}) :
         /\ world.trace[i].id = Len(world.fds)
         /\ \E j \in 1..(i - 1) : world.trace[j] = Event("os.OpenFile", world.trace[i].id)

C3_Witness ==
  /\ DbStageFailed
  /\ OpenFailed
  /\ \E i \in 1..Len(world.trace) : world.trace[i] = Failed("file.Close", 1)

\* C4: on a failure path the resources are released in the reverse order of
\* their acquisition: when the ping fails, the pool (acquired last) is
\* closed before the logger's writer (acquired first).
C4_ReverseOrderRollback ==
  (ConstructionFailed /\ PingFailed) =>
    /\ Has(world.trace, {"db.Close"})
    /\ Has(world.trace, WriterCloseOps)
    /\ Before(world.trace, {"db.Close"}, WriterCloseOps)
    /\ Before(world.trace, {"os.OpenFile"}, {"sql.Open"})

C4_Witness ==
  /\ ConstructionFailed
  /\ PingFailed
  /\ Has(world.trace, {"file.Close"})

\* C5: in NewDbService, when opening the pool fails no Close of a database
\* handle is attempted; when the pool opened and the ping failed, the pool
\* is closed exactly once before the error is returned.
C5_DbCloseOnlyAfterOpen ==
  Constructed =>
    /\ OpenFailed => ~Has(world.trace, {"db.Close", "DbService.Close"})
    /\ PingFailed =>
         /\ ret.err # NoErr
         /\ Count(world.trace, {"DbService.Close"}) = 1
         /\ Count(world.trace, {"db.Close"}) = 1
         /\ Before(world.trace, {"db.PingContext"}, {"db.Close"})
         /\ Before(world.trace, {"db.Close"}, {"NewContainer.return"})
         /\ \A i \in Positions(world.trace, {"db.Close"}) :
              world.trace[i].id = Len(world.pools)
         /\ world.pools[Len(world.pools)].closed

C5_Witness ==
  /\ Constructed
  /\ PingFailed
  /\ \E i \in 1..Len(world.trace) : world.trace[i] = Failed("db.Close", 1)

\* -------------------------------------------------------- Container.Close
\* the calls made by the latest call of Container.Close
LastCloseStart ==
  CHOOSE i \in Positions(world.trace, {"Container.Close"}) :
    \A j \in Positions(world.trace, {"Container.Close"}) : j <= i
LastCloseCalls == SubSeq(world.trace, LastCloseStart, Len(world.trace))
Closing == pc = "returned" /\ closeRets # << >>
LastCloseRet == closeRets[Len(closeRets)]
FailedIn(tr, ops) == \E i \in Positions(tr, ops) : ~tr[i].ok

\* C6: one call of Container.Close calls the Close of the database service
\* and the Close of the logger service exactly once each (for each that is
\* non-nil), whatever the other returns: a failing database close does not
\* keep the logger close from being attempted.
C6_CloseAttemptsEveryRelease ==
  Closing =>
    /\ Count(LastCloseCalls, {"DbService.Close"})
         = IF ret.container.DbService.ptr # "nil" THEN 1 ELSE 0
    /\ Count(LastCloseCalls, {"db.Close"})
         = IF ret.container.DbService.ptr # "nil" /\ ret.container.DbService.db # 0
           THEN 1 ELSE 0
    /\ Count(LastCloseCalls, {"LoggerService.Close"})
         = IF ret.container.LoggerService.ptr # "nil" THEN 1 ELSE 0
    /\ Count(LastCloseCalls, WriterCloseOps)
         = IF /\ ret.container.LoggerService.ptr # "nil"
              /\ ret.container.LoggerService.logWriter # NilWriter
           THEN 1 ELSE 0
    /\ Before(LastCloseCalls, {"DbService.Close"}, {"LoggerService.Close"})

C6_Witness ==
  /\ Closing
  /\ FailedIn(LastCloseCalls, {"db.Close"})
  /\ Has(LastCloseCalls, {"file.Close"})
  /\ ~FailedIn(LastCloseCalls, {"file.Close"})

\* C7: Container.Close returns nil if and only if no release failed;
\* otherwise it returns one error that names every failure, the database
\* one and the logger one when both failed, not only the first.
C7_CloseReportsEveryFailure ==
  Closing =>
    /\ LastCloseRet = NoErr
         <=> ~FailedIn(LastCloseCalls, {"db.Close"} \cup WriterCloseOps)
    /\ FailedIn(LastCloseCalls, {"db.Close"}) =>
         /\ LastCloseRet[1] = "errors during container shutdown"
         /\ Contains(LastCloseRet, "failed to close database service")
         /\ Contains(LastCloseRet, "db close failed")
    /\ FailedIn(LastCloseCalls, WriterCloseOps) =>
         /\ LastCloseRet[1] = "errors during container shutdown"
         /\ Contains(LastCloseRet, "failed to close logger service")
         /\ \/ Contains(LastCloseRet, "close failed")
            \/ Contains(LastCloseRet, "file already closed")

C7_Witness ==
  /\ Closing
  /\ FailedIn(LastCloseCalls, {"db.Close"})
  /\ FailedIn(LastCloseCalls, {"file.Close"})
  /\ Len(LastCloseRet) = 5

\* C8: Container.Close on a Container without a database handle (a nil
\* DbService, or a DbService without a pool) skips the database release,
\* still closes the logger, and returns nil when the logger close succeeds.
NoDbHandle(c) == c.DbService.ptr = "nil" \/ c.DbService.db = 0

C8_CloseSkipsNilDatabase ==
  (Closing /\ NoDbHandle(ret.container)) =>
    /\ ~Has(LastCloseCalls, {"db.Close"})
    /\ ret.container.LoggerService.ptr # "nil" =>
         Count(LastCloseCalls, {"LoggerService.Close"}) = 1
    /\ ret.container.LoggerService.logWriter # NilWriter =>
         Count(LastCloseCalls, WriterCloseOps) = 1
    /\ ~FailedIn(LastCloseCalls, WriterCloseOps) => LastCloseRet = NoErr

C8_Witness ==
  /\ Closing
  /\ ret.container.DbService.ptr = "nil"
  /\ Has(LastCloseCalls, {"file.Close"})
  /\ LastCloseRet = NoErr

\* ------------------------------------------------------------- log writers
\* a path can be opened for appending when its directory exists or can be
\* made, and the path is a file already or may be created in its directory
Openable(kind, path) ==
  kind[path] = "file" \/ (kind[path] = "none" /\ kind[Dir(path)] = "dir")

CanBeOpened(kind, logPath) ==
  Bind(MkdirAll(kind, Dir(Clean(logPath))), LAMBDA made :
    made.ok /\ Openable(made.kind, Clean(logPath)))

\* the outcome e of createLogWriter called in the world w, leaving w2
Selected(w, e, w2) ==
  /\ (e.writer # NilWriter) <=> (e.err = NoErr)
  /\ e.path = StdoutPath => e.writer = StdoutWriter /\ w2 = w
  /\ e.path = StderrPath => e.writer = StderrWriter /\ w2 = w
  /\ e.path = EmptyPath =>
       e.writer = NilWriter /\ e.err = <<"log path cannot be empty">> /\ w2 = w
  /\ e.path \notin {StdoutPath, StderrPath, EmptyPath} =>
       IF CanBeOpened(w.kind, e.path)
       THEN /\ e.writer = FileLogWriter(Len(w.fds) + 1)
            /\ Len(w2.fds) = Len(w.fds) + 1
            /\ w2.fds[e.writer.fd] = [path |-> Clean(e.path), open |-> TRUE]
            /\ w2.kind[Clean(e.path)] = "file"
       ELSE /\ e.writer = NilWriter
            /\ e.err # <<"log path cannot be empty">>
            /\ w2.fds = w.fds

\* C9: log writer selection is total and exclusive: every log path gives
\* exactly one outcome, the stdout writer for "stdout", the stderr writer
\* for "stderr", a file writer for any other non-empty path that can be
\* opened, and the error "log path cannot be empty" with no writer for "".
C9_WriterSelection ==
  [][Len(writers') = Len(writers) + 1 =>
       Selected(world, writers'[Len(writers')], world')]_vars

C9_Witness ==
  /\ Len(writers) = 1
  /\ writers[1].path = <<".", Sep, "stderr">>
  /\ writers[1].writer.variant = "file"
  /\ world.fds[writers[1].writer.fd].path = <<"stderr">>

RECURSIVE IsSubseq(_, _)
IsSubseq(s, t) ==
  IF s = << >> THEN TRUE
  ELSE IF t = << >> THEN FALSE
  ELSE IF Head(s) = Head(t) THEN IsSubseq(Tail(s), Tail(t))
  ELSE IsSubseq(s, Tail(t))

\* C10: opening a file log writer is idempotent and appends: a writer opened
\* again at the same path does not fail, and what was written through an
\* earlier writer is still in the file after the later open and its writes.
C10_ReopenAppends ==
  \A i \in 1..Len(writers) :
    /\ \A j \in 1..(i - 1) :
         (writers[j].path = writers[i].path /\ writers[j].err = NoErr)
           => writers[i].err = NoErr
    /\ writers[i].writer.variant = "file" =>
         IsSubseq(writers[i].written,
                  world.data[world.fds[writers[i].writer.fd].path])

C10_Witness ==
  /\ Len(writers) = 2
  /\ writers[1].writer.variant = "file"
  /\ writers[2].writer.variant = "file"
  /\ writers[1].written = <<1>>
  /\ writers[2].at = 1
  /\ writers[2].written = <<2>>
  /\ world.data[<<"a">>] = <<0, 1, 2>>

\* ----------------------------------------------------------- health check
\* C11: DbService.Ping returns the error "database connection is nil"
\* without probing when the pool handle is nil, and otherwise probes once and
\* returns an error exactly when the probe did not succeed within the deadline.
C11_PingReportsProbe ==
  \A i \in 1..Len(pings) :
    IF pings[i].db = 0
    THEN pings[i].err = <<"database connection is nil">>
         /\ DOMAIN pings[i].probes = {}
    ELSE /\ Cardinality(DOMAIN pings[i].probes) = 1
         /\ \A k \in DOMAIN pings[i].probes :
              (pings[i].err # NoErr) <=> ~pings[i].probes[k]

C11_Witness ==
  /\ Len(pings) = 2
  /\ pings[1].db # 0 /\ pings[1].err = NoErr
  /\ pings[2].db # 0 /\ pings[2].err = <<"context deadline exceeded">>

\* ------------------------------------------------- stages of construction
\* C12: one NewContainer call probes the database at most once and never
\* again: after a failed probe construction fails, with no second probe and
\* no later stage started.
C12_SinglePing ==
  Constructed =>
    /\ Count(world.trace, {"DbService.Ping"}) <= 1
    /\ Count(world.trace, {"db.PingContext"}) <= 1
    /\ PingFailed =>
         /\ ret.err # NoErr
         /\ ret.container = NilContainer
         /\ ~Has(world.trace, {"NewResponseBuilderService"})
         /\ \A i \in Positions(world.trace, {"db.PingContext"}) :
              \A j \in (i + 1)..Len(world.trace) :
                world.trace[j].op \in WriterCloseOps \cup
                  {"DbService.Close", "db.Close", "LoggerService.Close",
                   "NewContainer.return"}

C12_Witness ==
  /\ Constructed
  /\ PingFailed
  /\ Count(world.trace, {"db.PingContext"}) = 1
  /\ Contains(ret.err, "context deadline exceeded")

\* the stage an error of NewContainer names, read off its messages alone
StageMessages ==
  {"failed to create config service", "failed to build configuration",
   "failed to create logger service", "failed to create log writer",
   "failed to create database service", "failed to create database connection",
   "failed to open database connection", "failed to ping database"}

StageNamed(err) ==
  IF Len(err) < 2 THEN "none"
  ELSE IF err[1] = "failed to create config service" THEN "config"
  ELSE IF err[1] = "failed to create logger service" THEN "logger"
  ELSE IF err[1] # "failed to create database service" THEN "none"
  ELSE IF err[2] = "failed to ping database" THEN "ping"
  ELSE IF err[2] = "failed to create database connection" THEN "open"
  ELSE "none"

\* the stage that failed, read off the calls made
StageFailed ==
  IF ~Has(world.trace, {"NewLoggerService"}) THEN "config"
  ELSE IF ~Has(world.trace, {"NewDbService"}) THEN "logger"
  ELSE IF OpenFailed THEN "open"
  ELSE IF PingFailed THEN "ping"
  ELSE "none"

\* C13: the error NewContainer returns identifies the failed stage: config
\* build, logger creation, database open and database ping give errors that
\* differ in their messages, each ending in the underlying cause, and a ping
\* failure gives an error containing "failed to ping database".
C13_ErrorNamesStage ==
  ConstructionFailed =>
    /\ StageFailed # "none"
    /\ StageNamed(ret.err) = StageFailed
    /\ Len(ret.err) >= 3
    /\ ret.err[Len(ret.err)] \notin StageMessages
    /\ PingFailed <=> Contains(ret.err, "failed to ping database")

C13_Witness ==
  /\ ConstructionFailed
  /\ ret.err = <<"failed to create database service", "failed to ping database",
                 "context deadline exceeded">>

\* C14: when the configuration stage fails NewContainer returns before any
\* resource is opened: no log writer is created or opened, no database pool is
\* opened, and no close operation is invoked.
C14_ConfigFailureOpensNothing ==
  (ConstructionFailed /\ StageNamed(ret.err) = "config") =>
    /\ world.fds = << >>
    /\ world.pools = << >>
    /\ world.defaultLogger = NilWriter
    /\ world.kind \in InitKinds
    /\ [i \in 1..Len(world.trace) |-> world.trace[i].op] =
         <<"NewContainer", "NewConfigService", "NewContainer.return">>

C14_Witness ==
  /\ ConstructionFailed
  /\ ret.err = <<"failed to create config service",
                 "failed to build configuration",
                 "configuration validation failed", "validation failed">>
  /\ world.kind[<<"a">>] = "none"

\* the calls each stage of NewContainer makes while it builds its service
ConfigStageOps == {"NewConfigService"}
LoggerStageOps == {"NewLoggerService", "os.MkdirAll", "os.OpenFile"}
DbStageOps == {"NewDbService", "sql.Open", "DbService.Ping", "db.PingContext"}
AuxStageOps == {"NewResponseBuilderService"}

C16_FieldsWrittenOnce ==
  [][pc = "returned" =>
       /\ ret'.container = ret.container
       /\ "Config" \in got'.calls => got'.Config = ret.container.ConfigService.config
       /\ "Logger" \in got'.calls => got'.Logger = ret.container.LoggerService.logger
       /\ "Db" \in got'.calls => got'.Db = ret.container.DbService.db]_vars

C16_Witness ==
  /\ origin = "NewContainer"
  /\ Len(closeRets) = 2
  /\ got.calls = {"Config", "Logger", "Db"}
  /\ ret.container.DbService.db = 1
  /\ got.Db = 1
  /\ world.pools[1].closed

\* C17: a close that fails during rollback never masks the failure that
\* caused the rollback: when the database stage fails and the close of the
\* logger, or of the pool whose ping failed, fails as well, NewContainer
\* still returns the error of the database stage and drops the close error.
C17_RollbackKeepsPrimaryError ==
  (DbStageFailed /\ FailedIn(world.trace, {"db.Close", "file.Close"})) =>
    /\ ret.err[1] = "failed to create database service"
    /\ OpenFailed => ret.err = <<"failed to create database service",
                                 "failed to create database connection",
                                 "failed to open database connection",
                                 "invalid DSN">>
    /\ PingFailed => ret.err = <<"failed to create database service",
                                 "failed to ping database",
                                 "context deadline exceeded">>
    /\ OpenFailed \/ PingFailed

C17_Witness ==
  /\ DbStageFailed
  /\ PingFailed
  /\ FailedIn(world.trace, {"db.Close"})
  /\ FailedIn(world.trace, {"file.Close"})
  /\ ret.err[2] = "failed to ping database"

\* ------------------------------------------------------- the server process
\* C18: construction failure is fatal to startup: the server registers routes
\* and listens only after NewContainer has returned success, and when
\* NewContainer fails the process terminates, by the panic, without having
\* registered a route, started the signal goroutine or listened.
C18_NoServingWithoutContainer ==
  /\ (srv.routes \/ srv.listening \/ srv.sig # "off" \/ srv.msgs # << >>
        \/ srv.at \notin {"main", "exited"}) =>
       /\ pc = "returned"
       /\ ret.err = NoErr
       /\ ret.container.ptr = "ok"
  /\ (pc = "returned" /\ ret.err # NoErr) =>
       /\ ~srv.routes /\ ~srv.listening
       /\ \/ srv.at = "main" /\ ENABLED MainPanic
          \/ srv.at = "exited" /\ srv.exit = "panic"
  /\ srv.exit = "panic" => ret.err # NoErr /\ closeRets = << >>

C18_Witness ==
  /\ srv.at = "exited"
  /\ srv.exit = "panic"
  /\ PingFailed
  /\ ~srv.routes

\* what has reached the place a logger writes to
Sink(w, writer) ==
  IF writer.variant = "file" THEN w.data[w.fds[writer.fd].path]
  ELSE w.streams[writer.variant]

Delivered(msg) ==
  \E i \in 1..Len(srv.msgs) :
    /\ srv.msgs[i] = msg
    /\ \E k \in 1..Len(Sink(world, Logger(ret.container))) :
         Sink(world, Logger(ret.container))[k] = i

TeardownFailed ==
  srv.at = "exited" /\ srv.exit = "return" /\ closeRets[1] # NoErr

\* C19: a teardown failure is reported and does not prevent exit: when the
\* deferred Container.Close returns an error in the server entry point, the
\* error is reported through the container's logger, and the process exits.
C19_TeardownFailureReported ==
  /\ srv.at = "deferred" => ENABLED MainDeferredClose
  /\ TeardownFailed => Delivered("Failed to close container during shutdown")

\* the report is handed to a logger whose file Close has just closed
C19_Witness ==
  /\ TeardownFailed
  /\ Logger(ret.container).variant = "file"
  /\ ~world.fds[Logger(ret.container).fd].open
  /\ srv.msgs[Len(srv.msgs)] = "Failed to close container during shutdown"
  /\ ~Delivered("Failed to close container during shutdown")
  /\ Delivered("Starting web server")

\* ------------------------------------------------------------ env files
\* the files loadEnvVars is documented to read, highest priority first
Priority(env) ==
  IF env = "test"
  THEN <<LocalEnvFileName(env), GenericEnvFileName(env), BaseEnvFileName>>
  ELSE <<LocalEnvFileName(env), GenericLocalFileName, GenericEnvFileName(env),
         BaseEnvFileName>>

Defines(files, name, k) == files[name].kind = "ok" /\ k \in files[name].keys

\* the value the documented order gives variable k
Expected(env, files, environ, k) ==
  IF environ[k] # Unset THEN environ[k]
  ELSE IF \E i \in 1..Len(Priority(env)) : Defines(files, Priority(env)[i], k)
  THEN Priority(env)[CHOOSE i \in 1..Len(Priority(env)) :
                       /\ Defines(files, Priority(env)[i], k)
                       /\ \A j \in 1..(i - 1) :
                            ~Defines(files, Priority(env)[j], k)]
  ELSE Unset

\* C20: env files are applied in the priority order .env.{env}.local,
\* .env.local, .env.{env}, .env: after loadEnvVars has succeeded every
\* variable has the value of the highest-priority file that defines it, a
\* variable set in the process environment keeps its value, and .env.local is
\* not loaded when env is "test".
C20_EnvFilePriority ==
  [][(dotenv.phase = "input" /\ dotenv'.phase = "loaded" /\ dotenv'.err = NoErr)
       => \A k \in EnvKeys :
            dotenv'.environ[k] =
              Expected(dotenv.env, dotenv.files, dotenv.environ, k)]_vars

C20_Witness ==
  /\ dotenv.phase = "loaded"
  /\ dotenv.err = NoErr
  /\ dotenv.env = "test"
  /\ Defines(dotenv.files, GenericLocalFileName, "DB_DSN")
  /\ Defines(dotenv.files, BaseEnvFileName, "DB_DSN")
  /\ Defines(dotenv.files, GenericEnvFileName("test"), "APP_LOG_PATH")
  /\ Defines(dotenv.files, BaseEnvFileName, "APP_LOG_PATH")
  /\ dotenv.environ["DB_DSN"] = BaseEnvFileName
  /\ dotenv.environ["APP_LOG_PATH"] = GenericEnvFileName("test")

\* --------------------------------------------------- closing a log writer
StreamVariants == {"stdout", "stderr"}

\* C23: Close on the standard-output or standard-error log writer is a no-op:
\* every Close returns nil and leaves the stream open, so every record written
\* through the writer, before or after a Close, reaches the stream and no
\* descriptor exists; only a file writer's Close releases a descriptor.
C23_StreamCloseIsNoOp ==
  \A i \in 1..Len(writers) :
    /\ writers[i].writer.variant \in StreamVariants =>
         /\ \A k \in 1..Len(closeRets) : closeRets[k] = NoErr
         /\ world.closedStreams = {}
         /\ world.fds = << >>
         /\ world.streams[writers[i].writer.variant]
              = [n \in 1..nwrites |-> n]
         /\ ~Has(world.trace, {"file.Close"})
    /\ writers[i].writer.variant = "file" =>
         /\ world.closedStreams = {}
         /\ (\E k \in Positions(world.trace, {"file.Close"}) :
               world.trace[k].id = writers[i].writer.fd)
              <=> ~world.fds[writers[i].writer.fd].open

C23_Witness ==
  /\ Len(writers) = 1
  /\ writers[1].writer = StdoutWriter
  /\ closeRets = <<NoErr, NoErr>>
  /\ nwrites = 1
  /\ world.streams.stdout = <<1>>
  /\ world.trace[Len(world.trace)].op = "stdoutWriter.Close"

\* ------------------------------------------------------ the default logger
\* the writer behind slog.Default() has been released
DefaultLoggerReleased ==
  /\ world.defaultLogger.variant = "file"
  /\ ~world.fds[world.defaultLogger.fd].open

\* C27: construction never leaves the process-wide default logger on a
\* released writer: after NewContainer has returned an error of the database
\* stage, the default logger NewLoggerService installed does not write to a
\* log file that the rollback has closed.
C27_DefaultLoggerNotReleased ==
  ConstructionFailed => ~DefaultLoggerReleased

\* the database stage failed with a file log path: the rollback has closed the
\* file and slog.Default() still writes to it
C27_Witness ==
  /\ DbStageFailed
  /\ PingFailed
  /\ Count(world.trace, {"file.Close"}) = 1
  /\ DefaultLoggerReleased
  /\ world.fds[world.defaultLogger.fd].path = <<"a">>

\* ------------------------------------------------------ closing twice
\* C28: Container.Close is idempotent: a second Close on the same Container
\* invokes no close on a file writer or a pool that is closed already, and
\* returns success.
C28_CloseIdempotent ==
  (Closing /\ Len(closeRets) >= 2) =>
    /\ LastCloseRet = NoErr
    /\ ~Has(LastCloseCalls, {"file.Close", "db.Close"})

\* a fully built Container with a log file, closed twice: the first Close
\* succeeds, the second closes the closed file again and reports it
C28_Witness ==
  /\ origin = "NewContainer"
  /\ Len(closeRets) = 2
  /\ closeRets[1] = NoErr
  /\ closeRets[2] = <<"errors during container shutdown",
                      "failed to close logger service", "file already closed">>
  /\ Count(world.trace, {"file.Close"}) = 2
  /\ Count(world.trace, {"db.Close"}) = 2

\* ------------------------------------------------------ graceful shutdown
MsgAt(msg) == {i \in 1..Len(srv.msgs) : srv.msgs[i] = msg}
ShutdownOutcomes ==
  {"Server shutdown initiated successfully", "Error during server shutdown"}
\* startServer has returned, and not because the listener could not start
ReturnedGracefully ==
  /\ srv.at \in {"deferred", "exited"}
  /\ srv.exit # "panic"
  /\ MsgAt("HTTP server failed to start") = {}

\* C24: on the graceful-shutdown path the server start function waits for the
\* shutdown to complete: it does not return, and does not log "HTTP server
\* shutdown complete", before server.Shutdown has returned in the signal
\* goroutine and serverStopCtx has been called.
C24_WaitsForShutdown ==
  /\ (ReturnedGracefully \/ MsgAt("HTTP server shutdown complete") # {}) =>
       /\ srv.stopped
       /\ srv.sig = "done"
       /\ \A i \in MsgAt("HTTP server shutdown complete") :
            \E j \in 1..(i - 1) : srv.msgs[j] \in ShutdownOutcomes
  /\ (srv.at = "waiting" /\ ~srv.stopped) => ~ENABLED ShutdownComplete

C24_Witness ==
  /\ srv.at = "deferred"
  /\ srv.stopped
  /\ srv.msgs = <<"Starting web server", "HTTP server starting",
                  "Shutdown signal received", "Error during server shutdown",
                  "HTTP server shutdown complete">>

\* ------------------------------------------------- closing while serving
\* C29: in the server entry point Container.Close is never invoked while the
\* server is still serving: the pool and the log writer are released only
\* after ListenAndServe has returned and when no request handler is running,
\* also when the grace period of the shutdown elapses first.
C29_NoCloseWhileServing ==
  closeRets # << >> => (~srv.listening /\ srv.inflight = 0)

\* the grace period has elapsed with a handler still running: startServer has
\* returned and the deferred Close has released the pool under the handler
C29_Witness ==
  /\ srv.at = "exited"
  /\ srv.exit = "return"
  /\ closeRets = <<NoErr>>
  /\ srv.inflight = 1
  /\ world.pools[Db(ret.container)].closed
  /\ MsgAt("Error during server shutdown") # {}
  /\ MsgAt("HTTP server shutdown complete") # {}

\* ------------------------------------------------------------ termination
InStartServer == srv.at \in {"setup", "listening", "waiting"}

\* C30: the server start function terminates: once a shutdown signal has been
\* delivered, serverStopCtx is eventually called and the function eventually
\* returns, whether Shutdown succeeded or returned an error; and when
\* ListenAndServe fails with another error than ErrServerClosed the function
\* returns without waiting for a signal.
C30_StartServerTerminates ==
  /\ (srv.sig = "shutting" /\ InStartServer)
       ~> (srv.stopped /\ srv.sig = "done" /\ ~InStartServer)
  /\ [](MsgAt("HTTP server failed to start") # {} => ~InStartServer)

C30_Witness ==
  /\ srv.at = "deferred"
  /\ srv.stopped
  /\ srv.accepted = 1
  /\ srv.inflight = 1
  /\ srv.msgs[Len(srv.msgs) - 1] = "Error during server shutdown"

\* -------------------------------------------------------- the CLI process
\* C22: the CLI entry point cleans up on exit: once NewContainer has
\* succeeded, every path by which the CLI process exits invokes
\* Container.Close before the process ends.
C22_CliClosesOnEveryExit ==
  (cli.at = "exited" /\ pc = "returned" /\ ret.err = NoErr)
    => closeRets # << >>

\* the process has ended through os.Exit: the deferred Close never ran, the
\* pool and the log file were still open
C22_Witness ==
  /\ cli = [at |-> "exited", exit |-> "os.Exit"]
  /\ ret.err = NoErr
  /\ closeRets = << >>
  /\ ~Has(world.trace, {"Container.Close"})
  /\ ~world.pools[Db(ret.container)].closed
  /\ Logger(ret.container).variant = "file"
  /\ world.fds[Logger(ret.container).fd].open

\* ------------------------------------------------------ the error responses
\* C21: an error response built by NewErrorBuilder is sent with status 400
\* when the error is a *domain.Error and with status 500 when the error holds
\* no *domain.Error; setupErrorCategories returns exactly one category, the
\* bad request category, and domain errors match it.
C21_DomainErrorsAreBadRequests ==
  /\ Len(setupErrorCategories) = 1
  /\ setupErrorCategories[1].status = StatusBadRequest
  /\ \A unwraps \in BOOLEAN :
        Matches(setupErrorCategories[1], <<"*domain.Error">>, unwraps)
  /\ resp.at = "sent" =>
       /\ resp.err[1] = "*domain.Error" => resp.Code = StatusBadRequest
       /\ (\A i \in 1..Len(resp.err) : resp.err[i] # "*domain.Error")
            => resp.Code = StatusInternalServerError

C21_Witness ==
  /\ resp.at = "sent"
  /\ resp.err[1] = "*domain.Error"
  /\ resp.Code = 400

\* ----------------------------------------------------- the migrations runner
\* C25: RunMigrations validates its required options first: with an empty
\* DbDsn, a nil Logger or an empty MigrationsDir it panics and no database
\* connection has been opened; and a connection it opened is closed when
\* RunMigrations has returned or has panicked afterwards.
C25_ValidatesThenClosesWhatItOpened ==
  /\ (\/ mig.options.DbDsn = ""
      \/ mig.options.Logger = "nil"
      \/ mig.options.MigrationsDir = "") /\ mig.at # "idle"
       => /\ mig.at = "panicked"
          /\ mig.panic \in
               {<<"Could not bootstrap migrations. DbDsn is required">>,
                <<"Could not bootstrap migrations. Logger is required">>,
                <<"Could not bootstrap migrations. MigrationsDir is required">>}
          /\ mig.db = 0
          /\ world.pools = << >>
          /\ ~Has(world.trace, {"sql.Open"})
  /\ mig.at \in {"returned", "panicked"} /\ mig.db # 0
       => world.pools[mig.db].closed

\* a panic after the connection was opened, and the pool is closed
C25_Witness ==
  /\ mig.at = "panicked"
  /\ mig.db # 0
  /\ mig.panic = <<"failed to build migration executions repository">>
  /\ world.pools[mig.db].closed
  /\ Before(world.trace, {"sql.Open"}, {"db.Close"})

\* ------------------------------------------------ the global test bootstrap
\* C26: under any interleaving of concurrent GetGlobalTestBootstrap calls,
\* SetupTestEnvironment executes at most once, no caller returns before it
\* has finished, and every caller that returns receives the same Bootstrap
\* instance and the same error.
C26_GlobalBootstrapOnce ==
  /\ boot.setups <= 1
  /\ \A c \in Callers :
        boot.callers[c].at = "returned"
          => /\ boot.setups = 1
             /\ ~boot.running
             /\ boot.done
  /\ \A c, d \in Callers :
        boot.callers[c].at = "returned" /\ boot.callers[d].at = "returned"
          => /\ boot.callers[c].bootstrap = boot.callers[d].bootstrap
             /\ boot.callers[c].err = boot.callers[d].err

\* two callers have returned the one instance; the second went through the
\* mutex while the first was in SetupTestEnvironment
C26_Witness ==
  /\ boot.setups = 1
  /\ \E c, d \in Callers :
        /\ c # d
        /\ boot.callers[c].at = "returned"
        /\ boot.callers[d].at = "returned"
        /\ boot.callers[c].bootstrap = 1
        /\ boot.callers[d].bootstrap = 1

====
